---- MODULE Spec2Model ----
(***************************************************************************)
(* Model of the template engine of air (internal/template/template.go):    *)
(* include expansion with cycle detection and the project-root check, and  *)
(* placeholder substitution.                                               *)
(*                                                                         *)
(* Paths are records [abs, segs]: abs says whether the path is rooted at   *)
(* "/", segs is the sequence of its elements.  The relative path with no   *)
(* elements is ".".                                                        *)
(*                                                                         *)
(* Template text is a sequence of tokens.  "open" is the directive head    *)
(* {{include " , "close" is the directive tail "}} , and a "word" is a run *)
(* of text without a double quote, which is also what a directive takes as *)
(* its path.  File bodies are drawn so that at most one word stands        *)
(* between an "open" and a "close".                                        *)
(***************************************************************************)
EXTENDS Integers, Sequences, FiniteSets, TLC

\* ------------------------------------------------------------------ bounds
\* Total number of items (words, directives, directive fragments) written
\* into the files of one file system.
MaxItems == 3

\* ------------------------------------------------------------------- paths
RelPath(s) == [abs |-> FALSE, segs |-> s]
AbsPath(s) == [abs |-> TRUE, segs |-> s]

\* The working directory of the process; filepath.Abs(".") returns it.
Cwd == AbsPath(<<"p">>)

RECURSIVE CleanSegs(_, _, _)
CleanSegs(abs, segs, out) ==
    IF segs = <<>> THEN out
    ELSE LET h == Head(segs)
             t == Tail(segs)
         IN IF h = "." THEN CleanSegs(abs, t, out)
            ELSE IF h = ".."
                 THEN IF out # <<>> /\ out[Len(out)] # ".."
                      THEN CleanSegs(abs, t, SubSeq(out, 1, Len(out) - 1))
                      ELSE IF abs THEN CleanSegs(abs, t, out)
                                  ELSE CleanSegs(abs, t, Append(out, ".."))
                 ELSE CleanSegs(abs, t, Append(out, h))

\* filepath.Clean
Clean(p) == [abs |-> p.abs, segs |-> CleanSegs(p.abs, p.segs, <<>>)]

\* filepath.IsAbs
IsAbs(p) == p.abs

\* filepath.Join(base, p): joins the elements and cleans the result
Join(base, p) == Clean([abs |-> base.abs, segs |-> base.segs \o p.segs])

\* filepath.Abs
Abs(p) == IF IsAbs(p) THEN Clean(p) ELSE Join(Cwd, p)

\* filepath.Dir: all but the last element, cleaned
Dir(p) ==
    IF p.segs = <<>> THEN p
    ELSE Clean([abs |-> p.abs, segs |-> SubSeq(p.segs, 1, Len(p.segs) - 1)])

RECURSIVE CommonLen(_, _)
CommonLen(s, t) ==
    IF s = <<>> \/ t = <<>> \/ Head(s) # Head(t) THEN 0
    ELSE 1 + CommonLen(Tail(s), Tail(t))

\* filepath.Rel(base, targ) for two cleaned absolute paths
Rel(base, targ) ==
    LET n == CommonLen(base.segs, targ.segs)
    IN RelPath([i \in 1..(Len(base.segs) - n) |-> ".."]
               \o SubSeq(targ.segs, n + 1, Len(targ.segs)))

ResolveAbsolutePathIgnoringBase(path, baseDir) == Abs(Clean(path))

ResolveAbsolutePath(path, baseDir) ==
    LET joined == IF ~IsAbs(path) THEN Join(baseDir, path) ELSE path
        cleaned == Clean(joined)
    IN Abs(cleaned)

\* validatePathSecurity: TRUE when the path is accepted (the function
\* returns nil), FALSE when it returns the "outside the project directory"
\* error.
ValidatePathSecurityRelOnly(absPath) ==
    LET projectRoot == Abs(RelPath(<<>>))
        rel == Rel(projectRoot, absPath)
    IN ~(rel.segs = <<"..">>)

validatePathSecurity(absPath) ==
    LET projectRoot == Abs(RelPath(<<>>))
        rel == Rel(projectRoot, absPath)
    IN ~(rel.segs = <<"..">> \/ (Len(rel.segs) >= 2 /\ rel.segs[1] = ".."))

\* ------------------------------------------------------------------- text
NoPath == RelPath(<<>>)
Open == [k |-> "open", p |-> NoPath]
Close == [k |-> "close", p |-> NoPath]
Word(path) == [k |-> "word", p |-> path]

\* IncludePattern.FindStringSubmatchIndex(sub): the 0-based offset of the
\* leftmost directive in sub, -1 when there is none (idxs == nil).  The
\* match covers three tokens and its first group is the word.
FindStringSubmatchIndex(sub) ==
    LET hits == {i \in 1..(Len(sub) - 2) :
                    /\ sub[i] = Open
                    /\ sub[i + 1].k = "word"
                    /\ sub[i + 2] = Close}
    IN IF hits = {} THEN -1
       ELSE (CHOOSE i \in hits : \A j \in hits : i <= j) - 1

\* ------------------------------------------------------------ file system
FileA == AbsPath(<<"p", "a">>)
FileB == AbsPath(<<"p", "b">>)
FileC == AbsPath(<<"p", "d", "c">>)
FileS == AbsPath(<<"s">>)
Files == {FileA, FileB, FileC, FileS}

\* args[0] of run: a template in the working directory, or one outside it
TemplateFiles == {RelPath(<<"a">>), RelPath(<<"..", "s">>)}

LitX == Word(RelPath(<<"x">>))
IncludeRefs == {RelPath(<<"b">>), RelPath(<<"d", "c">>),
                RelPath(<<"..", "a">>), RelPath(<<"..", "b">>),
                AbsPath(<<"s">>), AbsPath(<<"p", "b">>)}

\* What a file body is made of: a word, a whole directive, the head of a
\* directive alone, and a word followed by the tail of a directive.
Items == {<<LitX>>, <<Open>>, <<LitX, Close>>}
            \cup {<<Open, Word(r), Close>> : r \in IncludeRefs}

RECURSIVE Concat(_)
Concat(ss) == IF ss = <<>> THEN <<>> ELSE Head(ss) \o Concat(Tail(ss))

BodiesOf(n) == {Concat(is) : is \in [1..n -> Items]}

\* at most one word between a directive head and a directive tail
SingleWordPaths(body) ==
    \A i \in 1..Len(body) : \A j \in (i + 3)..Len(body) :
        ~(/\ body[i] = Open
          /\ body[j] = Close
          /\ \A m \in (i + 1)..(j - 1) : body[m].k = "word")

\* os.ReadFile: the bytes of an existing file, an error otherwise
FileExists(files, path) == path \in DOMAIN files

\* ------------------------------------------------------------------ state
VARIABLES
    fs,            \* the files on disk: absolute path -> body
    templateFile,  \* args[0], the top-level template
    stack,         \* call stack of ProcessIncludes / processIncludeFile
    Visited,       \* InclusionContext.Visited
    BaseDir,       \* InclusionContext.BaseDir
    ret,           \* the value returned by the call that ended last
    reads,         \* paths handed to os.ReadFile by processIncludeFile
    backEdges,     \* history: directive targets that were files under
                   \* expansion when the directive was resolved
    steps,         \* history: number of steps taken by the call
    content,       \* ReplacePlaceholders: the text, a sequence of characters
    variables,     \* ReplacePlaceholders: name -> value
    searchPos,     \* where ReplaceAllStringFunc looks for the next match
    result,        \* the text built by ReplaceAllStringFunc so far
    missingMap,    \* the names recorded as missing
    subPc,         \* "idle", "replace", "report" or "done"
    out,           \* what ReplacePlaceholders returned
    replaced,      \* history: the matches handed to the callback
    sources,       \* MergeVariables: the argument list, maps name -> value
    mergeOut,      \* what MergeVariables returned
    runPc,         \* run: the statement it is at
    cliOpts,       \* run: what ParseCLIFlags returned
    contentWithIncludes,  \* run: the template with its includes expanded
    cfg,           \* run: the configuration of the frontmatter
    envVars,       \* run: what getEnvVariables returned
    markdown,      \* run: the text after the frontmatter
    finalMarkdown, \* run: the prompt
    output,        \* run: the text handed to writeOutput after the AI call
    effects,       \* history: the calls of run on readFile, callAI,
                   \* writeFile, stdout and stderr, in order
    runErr,        \* what run returned
    argv,          \* ParseVarFlags, ParseCLIFlags: the argument list
    parseOut,      \* what the parser returned
    checkArgs,     \* the project-root checks: the root and the path
    checkOut       \* what the two checks answered

includeVars == <<fs, templateFile, stack, Visited, BaseDir, ret, reads,
                 backEdges, steps>>
substVars == <<content, variables, searchPos, result, missingMap, subPc, out,
               replaced>>
mergeVars == <<sources, mergeOut>>
runVars == <<runPc, cliOpts, contentWithIncludes, cfg, envVars, markdown,
             finalMarkdown, output, effects, runErr>>
callVars == <<argv, parseOut, checkArgs, checkOut>>
vars == <<includeVars, substVars, mergeVars, runVars, callVars>>

NilErr == [kind |-> "nil", includePath |-> NoPath, absPath |-> NoPath]
NoRet == [set |-> FALSE, text |-> <<>>, err |-> NilErr]
Return(text, err) == [set |-> TRUE, text |-> text, err |-> err]

PIFrame(file, text) ==
    [fn |-> "ProcessIncludes", pc |-> "scan", file |-> file,
     content |-> text, lastIndex |-> 0, result |-> <<>>, matchEnd |-> 0,
     includePath |-> NoPath, absPath |-> NoPath, oldBaseDir |-> NoPath,
     baseAtCall |-> NoPath, visitedAtCall |-> {}]

PFFrame(absPath, baseDir, visited) ==
    [fn |-> "processIncludeFile", pc |-> "read", file |-> absPath,
     content |-> <<>>, lastIndex |-> 0, result |-> <<>>, matchEnd |-> 0,
     includePath |-> NoPath, absPath |-> absPath, oldBaseDir |-> NoPath,
     baseAtCall |-> baseDir, visitedAtCall |-> visited]

Top == stack[Len(stack)]

\* the files whose expansion has been entered and not left: the template
\* and the files processIncludeFile is working on
ActiveFiles == {Abs(stack[i].file) : i \in 1..Len(stack)}
IncludedActive ==
    {stack[i].absPath : i \in {j \in 1..Len(stack) :
                                  stack[j].fn = "processIncludeFile"}}
Pop == SubSeq(stack, 1, Len(stack) - 1)
SetTop(f) == [stack EXCEPT ![Len(stack)] = f]

\* NewInclusionContext(initialFile)
NewVisited(initialFile) == {}
NewBaseDir(initialFile) == Dir(initialFile)

\* no ReplacePlaceholders call is under way
NoOut == [set |-> FALSE, text |-> <<>>, err |-> FALSE, missingList |-> <<>>]
SubstIdle ==
    /\ content = <<>>
    /\ variables = <<>>
    /\ searchPos = 1
    /\ result = <<>>
    /\ missingMap = {}
    /\ subPc = "idle"
    /\ out = NoOut
    /\ replaced = <<>>

\* no MergeVariables call is under way
NoMerge == [set |-> FALSE, vars |-> <<>>]
MergeIdle ==
    /\ sources = <<>>
    /\ mergeOut = NoMerge

\* none of the parsers and checks has been called
NoParse ==
    [set |-> FALSE, err |-> FALSE, Variables |-> <<>>, remaining |-> <<>>,
     OutputFile |-> <<>>, NoSummary |-> FALSE]
NoCheck == [prefix |-> "", rel |-> ""]
CallIdle ==
    /\ argv = <<>>
    /\ parseOut = NoParse
    /\ checkArgs = <<>>
    /\ checkOut = NoCheck

\* run has not been called
NoFlags ==
    [err |-> TRUE, args |-> <<>>, Variables |-> <<>>, OutputFile |-> "",
     NoSummary |-> FALSE, ShowPromptOnly |-> FALSE]
EmptyConfig ==
    [Model |-> "", Variables |-> <<>>, SafetySettings |-> <<>>,
     ResponseSchema |-> FALSE]
NoRunErr == [set |-> FALSE, code |-> 0, kind |-> ""]
RunIdle ==
    /\ runPc = "idle"
    /\ cliOpts = NoFlags
    /\ contentWithIncludes = <<>>
    /\ cfg = EmptyConfig
    /\ envVars = <<>>
    /\ markdown = <<>>
    /\ finalMarkdown = <<>>
    /\ output = <<>>
    /\ effects = <<>>
    /\ runErr = NoRunErr

\* run, lines 93-101: the template is read, a fresh context is made and
\* ProcessIncludes is called on the template's text.
Init ==
    /\ CallIdle
    /\ SubstIdle
    /\ MergeIdle
    /\ RunIdle
    /\ templateFile \in TemplateFiles
    /\ \E na, nb, nc, ns \in 0..MaxItems :
          /\ na + nb + nc + ns <= MaxItems
          /\ IF templateFile = RelPath(<<"a">>) THEN ns = 0
                                                ELSE na + nb + nc = 0
          /\ \E a \in BodiesOf(na), b \in BodiesOf(nb),
                c \in BodiesOf(nc), s \in BodiesOf(ns) :
                /\ \A body \in {a, b, c, s} : SingleWordPaths(body)
                /\ fs = (FileA :> a) @@ (FileB :> b) @@ (FileC :> c)
                          @@ (FileS :> s)
    /\ stack = <<PIFrame(templateFile, fs[Abs(templateFile)])>>
    /\ Visited = NewVisited(templateFile)
    /\ BaseDir = NewBaseDir(templateFile)
    /\ ret = NoRet
    /\ reads = <<>>
    /\ backEdges = {}
    /\ steps = 0

\* ---------------------------------------------------------- ProcessIncludes
\* content[lastIndex:matchStart], the text before the match
TextBeforeMatchFromStart(text, lastIndex, matchStart) ==
    SubSeq(text, 1, matchStart)

TextBeforeMatch(text, lastIndex, matchStart) ==
    SubSeq(text, lastIndex + 1, matchStart)

\* lines 84-100: look for the next directive in content[lastIndex:]
Scan ==
    /\ stack # <<>>
    /\ Top.fn = "ProcessIncludes" /\ Top.pc = "scan"
    /\ LET f == Top
           sub == SubSeq(f.content, f.lastIndex + 1, Len(f.content))
           idx == FindStringSubmatchIndex(sub)
       IN IF idx = -1
          THEN /\ ret' = Return(f.result \o sub, NilErr)
               /\ stack' = Pop
               /\ backEdges' = backEdges
          ELSE LET matchStart == f.lastIndex + idx
                   matchEnd == f.lastIndex + idx + 3
                   includePath == sub[idx + 2].p
                   absPath == ResolveAbsolutePath(includePath, BaseDir)
               IN /\ stack' = SetTop([f EXCEPT
                        !.pc = "security",
                        !.result = f.result \o
                            TextBeforeMatch(f.content, f.lastIndex, matchStart),
                        !.matchEnd = matchEnd,
                        !.includePath = includePath,
                        !.absPath = absPath])
                  /\ ret' = ret
                  /\ backEdges' = IF absPath \in ActiveFiles
                                   THEN backEdges \cup {absPath}
                                   ELSE backEdges
    /\ UNCHANGED <<fs, templateFile, Visited, BaseDir, reads>>
    /\ steps' = steps + 1
    /\ UNCHANGED <<substVars, mergeVars, runVars, callVars>>

\* lines 106-108
ValidateSecurity ==
    /\ stack # <<>>
    /\ Top.fn = "ProcessIncludes" /\ Top.pc = "security"
    /\ IF validatePathSecurity(Top.absPath)
       THEN /\ stack' = SetTop([Top EXCEPT !.pc = "circular"])
            /\ ret' = ret
       ELSE /\ stack' = Pop
            /\ ret' = Return(<<>>, [kind |-> "escape",
                                    includePath |-> Top.includePath,
                                    absPath |-> Top.absPath])
    /\ UNCHANGED <<fs, templateFile, Visited, BaseDir, reads, backEdges>>
    /\ steps' = steps + 1
    /\ UNCHANGED <<substVars, mergeVars, runVars, callVars>>

\* InclusionContext.checkCircular: TRUE when it returns the error
CheckCircularNever(visited, absPath) == FALSE

checkCircular(visited, absPath) == absPath \in visited

\* lines 111-116 and 63-64: the cycle check, then the call of
\* processIncludeFile, which marks the path before anything else
CheckCircular ==
    /\ stack # <<>>
    /\ Top.fn = "ProcessIncludes" /\ Top.pc = "circular"
    /\ IF checkCircular(Visited, Top.absPath)
       THEN /\ stack' = Pop
            /\ ret' = Return(<<>>, [kind |-> "circular",
                                    includePath |-> Top.includePath,
                                    absPath |-> Top.absPath])
            /\ Visited' = Visited
       ELSE /\ stack' = Append(SetTop([Top EXCEPT !.pc = "call"]),
                               PFFrame(Top.absPath, BaseDir, Visited))
            /\ Visited' = Visited \cup {Top.absPath}
            /\ ret' = ret
    /\ UNCHANGED <<fs, templateFile, BaseDir, reads, backEdges>>
    /\ steps' = steps + 1
    /\ UNCHANGED <<substVars, mergeVars, runVars, callVars>>

\* the two deferred calls of processIncludeFile
DeferredDeleteKeeps(visited, absPath) == visited

DeferredDelete(visited, absPath) == visited \ {absPath}

DeferredBaseDirOnSuccess(frame, baseDir, r) ==
    IF r.err.kind = "nil" THEN frame.oldBaseDir ELSE baseDir

DeferredBaseDir(frame, baseDir, r) == frame.oldBaseDir

\* lines 66-76: read the file; on failure return (the deferred delete
\* runs), otherwise switch BaseDir and expand the file's text
ReadIncludedFile ==
    /\ stack # <<>>
    /\ Top.fn = "processIncludeFile" /\ Top.pc = "read"
    /\ reads' = Append(reads, Top.absPath)
    /\ IF ~FileExists(fs, Top.absPath)
       THEN /\ stack' = Pop
            /\ ret' = Return(<<>>, [kind |-> "read",
                                    includePath |-> NoPath,
                                    absPath |-> Top.absPath])
            /\ Visited' = DeferredDelete(Visited, Top.absPath)
            /\ BaseDir' = BaseDir
       ELSE /\ stack' = Append(SetTop([Top EXCEPT !.pc = "call",
                                                 !.oldBaseDir = BaseDir]),
                               PIFrame(Top.absPath, fs[Top.absPath]))
            /\ BaseDir' = Dir(Top.absPath)
            /\ Visited' = Visited
            /\ ret' = ret
    /\ UNCHANGED <<fs, templateFile, backEdges>>
    /\ steps' = steps + 1
    /\ UNCHANGED <<substVars, mergeVars, runVars, callVars>>

\* line 76 and the deferred calls: the nested ProcessIncludes has returned
ProcessIncludeFileReturn ==
    /\ stack # <<>>
    /\ Top.fn = "processIncludeFile" /\ Top.pc = "call"
    /\ ret.set
    /\ BaseDir' = DeferredBaseDir(Top, BaseDir, ret)
    /\ Visited' = DeferredDelete(Visited, Top.absPath)
    /\ stack' = Pop
    /\ UNCHANGED <<fs, templateFile, ret, reads, backEdges>>
    /\ steps' = steps + 1
    /\ UNCHANGED <<substVars, mergeVars, runVars, callVars>>

\* line 118, return "", err: the text ProcessIncludes returns with the
\* error of processIncludeFile
TextWithErrorPartial(frame) == frame.result

TextWithError(frame) == <<>>

\* line 122, lastIndex = matchEnd: where the scan goes on after an include
LastIndexAtMatchStart(frame) == frame.matchEnd - 3

LastIndexAfterMatch(frame) == frame.matchEnd

\* lines 116-122: processIncludeFile has returned
IncludeReturned ==
    /\ stack # <<>>
    /\ Top.fn = "ProcessIncludes" /\ Top.pc = "call"
    /\ ret.set
    /\ IF ret.err.kind # "nil"
       THEN /\ stack' = Pop
            /\ ret' = Return(TextWithError(Top), ret.err)
       ELSE /\ stack' = SetTop([Top EXCEPT
                    !.pc = "scan",
                    !.result = Top.result \o ret.text,
                    !.lastIndex = LastIndexAfterMatch(Top)])
            /\ ret' = NoRet
    /\ UNCHANGED <<fs, templateFile, Visited, BaseDir, reads, backEdges>>
    /\ steps' = steps + 1
    /\ UNCHANGED <<substVars, mergeVars, runVars, callVars>>

Next ==
    \/ Scan
    \/ ValidateSecurity
    \/ CheckCircular
    \/ ReadIncludedFile
    \/ ProcessIncludeFileReturn
    \/ IncludeReturned

Spec == Init /\ [][Next]_vars

\* the top-level ProcessIncludes call has returned
Done == stack = <<>>

\* A bound on the steps of one top-level call: every included file costs
\* at most seven steps, and the files hold MaxItems directives at most.
StepLimit == 7 * (2 ^ MaxItems)
\* the guards of the six steps: the call on top of the stack is at a
\* statement it can execute, or waits for a callee that has returned
CanStep ==
    /\ stack # <<>>
    /\ \/ Top.fn = "ProcessIncludes"
          /\ Top.pc \in {"scan", "security", "circular"}
       \/ Top.fn = "processIncludeFile" /\ Top.pc = "read"
       \/ Top.pc = "call" /\ ret.set
Terminates ==
    /\ steps <= StepLimit
    /\ (~Done => CanStep)

\* ------------------------------------------------- the inclusion graph
\* The project root, and what lies under it, element by element.
ProjectRoot == Cwd
IsUnderRoot(absPath) ==
    /\ Len(absPath.segs) >= Len(ProjectRoot.segs)
    /\ SubSeq(absPath.segs, 1, Len(ProjectRoot.segs)) = ProjectRoot.segs

IsDirectiveAt(text, i) ==
    /\ i + 2 <= Len(text)
    /\ text[i] = Open /\ text[i + 1].k = "word" /\ text[i + 2] = Close

HasDirective(text) == \E i \in 1..Len(text) : IsDirectiveAt(text, i)

DirectiveRefs(body) ==
    {body[i + 1].p : i \in {j \in 1..Len(body) : IsDirectiveAt(body, j)}}

Targets(f) ==
    IF f \in DOMAIN fs
    THEN {ResolveAbsolutePath(r, Dir(f)) : r \in DirectiveRefs(fs[f])}
    ELSE {}

RECURSIVE Closure(_, _)
Closure(S, n) ==
    IF n = 0 THEN S
    ELSE Closure(S \cup UNION {Targets(f) : f \in S}, n - 1)

Reachable == Closure({Abs(templateFile)}, MaxItems + 1)
Cyclic == \E f \in Reachable : f \in Closure(Targets(f), MaxItems + 1)

\* a finite acyclic graph whose files are all readable and under the root
GraphOK ==
    /\ ~Cyclic
    /\ \A f \in Reachable : f \in DOMAIN fs /\ IsUnderRoot(f)

\* The textual splice: every directive replaced, left to right and depth
\* first, by the expansion of the file it names.
RECURSIVE Splice(_, _, _)
Splice(text, dir, fuel) ==
    IF text = <<>> \/ fuel = 0 THEN <<>>
    ELSE IF IsDirectiveAt(text, 1)
         THEN LET target == ResolveAbsolutePath(text[2].p, dir)
                  inner == IF target \in DOMAIN fs
                           THEN Splice(fs[target], Dir(target), fuel - 1)
                           ELSE <<>>
              IN inner \o Splice(SubSeq(text, 4, Len(text)), dir, fuel)
         ELSE <<Head(text)>> \o Splice(Tail(text), dir, fuel)

Expansion ==
    Splice(fs[Abs(templateFile)], Dir(Abs(templateFile)), MaxItems + 2)

Failed == ret.set /\ ret.err.kind # "nil"
AtStep(pc) == stack # <<>> /\ Top.fn = "ProcessIncludes" /\ Top.pc = pc

\* ------------------------------------------------- ReplacePlaceholders
\* Text is a sequence of one-character strings.  The characters of the
\* model: the two braces, the pipe, the letters a and b, the underscore,
\* the digit 1 and the blank.
MaxParts == 3

NameStart == {"a", "b", "_"}
NameChar == NameStart \cup {"1"}

At(s, i) == IF i >= 1 /\ i <= Len(s) THEN s[i] ELSE ""

\* the end of the run [a-zA-Z0-9_]* that starts at j
RECURSIVE NameEnd(_, _)
NameEnd(s, j) == IF At(s, j) \in NameChar THEN NameEnd(s, j + 1) ELSE j

\* the end of the run [^}]* that starts at k
RECURSIVE DefaultEnd(_, _)
DefaultEnd(s, k) ==
    IF k <= Len(s) /\ s[k] # "}" THEN DefaultEnd(s, k + 1) ELSE k

NoMatch == [ok |-> FALSE, stop |-> 0, name |-> <<>>, group2 |-> <<>>]

\* PlaceholderPattern matched at position i of s: stop is the position
\* after the match, name is group 1 and group2 is group 2, empty when the
\* group took no part in the match.
MatchAt(s, i) ==
    IF At(s, i) = "{" /\ At(s, i + 1) = "{" /\ At(s, i + 2) \in NameStart
    THEN LET j == NameEnd(s, i + 3)
             name == SubSeq(s, i + 2, j - 1)
         IN IF At(s, j) = "}" /\ At(s, j + 1) = "}"
            THEN [ok |-> TRUE, stop |-> j + 2, name |-> name,
                  group2 |-> <<>>]
            ELSE IF At(s, j) = "|"
                 THEN LET k == DefaultEnd(s, j + 1)
                      IN IF At(s, k) = "}" /\ At(s, k + 1) = "}"
                         THEN [ok |-> TRUE, stop |-> k + 2, name |-> name,
                               group2 |-> SubSeq(s, j + 1, k - 1)]
                         ELSE NoMatch
                 ELSE NoMatch
    ELSE NoMatch

\* the leftmost match at or after from, 0 when there is none
FindNext(s, from) ==
    LET hits == {i \in from..Len(s) : MatchAt(s, i).ok}
    IN IF hits = {} THEN 0 ELSE CHOOSE i \in hits : \A j \in hits : i <= j

\* The function handed to ReplaceAllStringFunc, lines 131-149: what
\* replaces the match, and whether the name is recorded as missing.
CallbackDefaultFirst(match, m, vs) ==
    IF m.group2 # <<>> THEN [rep |-> m.group2, missing |-> FALSE]
    ELSE IF m.name \in DOMAIN vs THEN [rep |-> vs[m.name], missing |-> FALSE]
    ELSE [rep |-> match, missing |-> TRUE]

Callback(match, m, vs) ==
    IF m.name \in DOMAIN vs THEN [rep |-> vs[m.name], missing |-> FALSE]
    ELSE IF m.group2 # <<>> THEN [rep |-> m.group2, missing |-> FALSE]
    ELSE [rep |-> match, missing |-> TRUE]

\* byte values, for the order of sort.Strings
CharCode(c) ==
    CASE c = " " -> 32
      [] c = "1" -> 49
      [] c = "_" -> 95
      [] c = "a" -> 97
      [] c = "b" -> 98
      [] c = "{" -> 123
      [] c = "|" -> 124
      [] c = "}" -> 125

RECURSIVE StringLess(_, _)
StringLess(x, y) ==
    IF y = <<>> THEN FALSE
    ELSE IF x = <<>> THEN TRUE
    ELSE IF CharCode(Head(x)) # CharCode(Head(y))
         THEN CharCode(Head(x)) < CharCode(Head(y))
         ELSE StringLess(Tail(x), Tail(y))

\* lines 152-156: the keys of missingMap, sorted by sort.Strings
RECURSIVE SortStrings(_)
SortStrings(names) ==
    IF names = {} THEN <<>>
    ELSE LET n == CHOOSE x \in names : \A y \in names \ {x} : StringLess(x, y)
         IN <<n>> \o SortStrings(names \ {n})

\* the texts and the variables of the model
Chunks == {<<"{", "{", "a", "}", "}">>, <<"{", "{", "b", "}", "}">>,
           <<"{", "{", "b", "1", "}", "}">>,
           <<"{", "{", "a", "|">>, <<"{", "{", "b", "|">>,
           <<"}", "}">>, <<"{", "{">>, <<"|">>, <<"a">>, <<"1">>, <<" ">>}
Texts == UNION {{Concat(cs) : cs \in [1..n -> Chunks]} : n \in 0..MaxParts}

VarNames == {<<"a">>, <<"b">>}
VarValues == {<<"1">>, <<"{", "{", "b", "}", "}">>}
VariableMaps == UNION {[D -> VarValues] : D \in SUBSET VarNames}

IncludeIdle ==
    /\ fs = <<>>
    /\ templateFile = NoPath
    /\ stack = <<>>
    /\ Visited = {}
    /\ BaseDir = NoPath
    /\ ret = NoRet
    /\ reads = <<>>
    /\ backEdges = {}
    /\ steps = 0

\* ReplacePlaceholders(content, variables) has been called
SubstInit ==
    /\ CallIdle
    /\ IncludeIdle
    /\ MergeIdle
    /\ RunIdle
    /\ content \in Texts
    /\ variables \in VariableMaps
    /\ searchPos = 1
    /\ result = <<>>
    /\ missingMap = {}
    /\ subPc = "replace"
    /\ out = NoOut
    /\ replaced = <<>>

\* ReplaceAllStringFunc, one match: the text before the match is copied,
\* the callback's result is appended, the search goes on after the match
ReplaceMatch ==
    /\ subPc = "replace"
    /\ FindNext(content, searchPos) # 0
    /\ LET i == FindNext(content, searchPos)
           m == MatchAt(content, i)
           match == SubSeq(content, i, m.stop - 1)
           cb == Callback(match, m, variables)
       IN /\ result' = result \o SubSeq(content, searchPos, i - 1) \o cb.rep
          /\ missingMap' = IF cb.missing THEN missingMap \cup {m.name}
                                         ELSE missingMap
          /\ searchPos' = m.stop
          /\ replaced' = Append(replaced,
                 [start |-> i, stop |-> m.stop, rep |-> cb.rep])
    /\ UNCHANGED <<content, variables, subPc, out>>
    /\ UNCHANGED <<includeVars, mergeVars, runVars, callVars>>

\* what ReplaceAllStringFunc copies after the last match
RestOfTextDropped(text, pos) == <<>>

RestOfText(text, pos) == SubSeq(text, pos, Len(text))

\* ReplaceAllStringFunc, no further match: the rest of the text is copied
ReplaceRest ==
    /\ subPc = "replace"
    /\ FindNext(content, searchPos) = 0
    /\ result' = result \o RestOfText(content, searchPos)
    /\ searchPos' = Len(content) + 1
    /\ subPc' = "report"
    /\ UNCHANGED <<content, variables, missingMap, out, replaced>>
    /\ UNCHANGED <<includeVars, mergeVars, runVars, callVars>>

\* lines 151-158: some name is missing
ReturnMissing ==
    /\ subPc = "report"
    /\ missingMap # {}
    /\ out' = [set |-> TRUE, text |-> <<>>, err |-> TRUE,
               missingList |-> SortStrings(missingMap)]
    /\ subPc' = "done"
    /\ UNCHANGED <<content, variables, searchPos, result, missingMap,
                   replaced>>
    /\ UNCHANGED <<includeVars, mergeVars, runVars, callVars>>

\* line 160
ReturnResult ==
    /\ subPc = "report"
    /\ missingMap = {}
    /\ out' = [set |-> TRUE, text |-> result, err |-> FALSE,
               missingList |-> <<>>]
    /\ subPc' = "done"
    /\ UNCHANGED <<content, variables, searchPos, result, missingMap,
                   replaced>>
    /\ UNCHANGED <<includeVars, mergeVars, runVars, callVars>>

SubstNext ==
    \/ ReplaceMatch
    \/ ReplaceRest
    \/ ReturnMissing
    \/ ReturnResult

SubstSpec == SubstInit /\ [][SubstNext]_vars

\* ------------------------------------------------------ MergeVariables
\* The longest argument list of the model.
MaxSources == 3

\* lines 212-214, one source: every key of src is assigned into result.
\* The order in which range visits the keys does not show, the keys of a
\* map being distinct.
AssignAllKeepingResult(res, src) ==
    [k \in DOMAIN res \cup DOMAIN src |->
        IF k \in DOMAIN res THEN res[k] ELSE src[k]]

AssignAll(res, src) ==
    [k \in DOMAIN res \cup DOMAIN src |->
        IF k \in DOMAIN src THEN src[k] ELSE res[k]]

\* lines 211-215: the sources in argument order
RECURSIVE MergeInto(_, _)
MergeInto(res, srcs) ==
    IF srcs = <<>> THEN res
    ELSE MergeInto(AssignAll(res, Head(srcs)), Tail(srcs))

MergeVariables(srcs) == MergeInto(<<>>, srcs)

MergeValues == {<<"1">>, <<"a">>, <<"b">>}
SourceMaps == UNION {[D -> MergeValues] : D \in SUBSET VarNames}

\* MergeVariables(sources...) is about to be called
MergeInit ==
    /\ CallIdle
    /\ IncludeIdle
    /\ SubstIdle
    /\ RunIdle
    /\ sources \in UNION {[1..n -> SourceMaps] : n \in 0..MaxSources}
    /\ mergeOut = NoMerge

MergeCall ==
    /\ ~mergeOut.set
    /\ mergeOut' = [set |-> TRUE, vars |-> MergeVariables(sources)]
    /\ UNCHANGED sources
    /\ UNCHANGED <<includeVars, substVars, runVars, callVars>>

MergeNext == MergeCall

MergeSpec == MergeInit /\ [][MergeNext]_vars

\* ------------------------------------------------------------------- run
\* The template of a run may hold, besides directives, a frontmatter and
\* text with placeholders.  "fence" is a line --- , "yaml" stands for the
\* lines of a YAML document and carries what yaml.Unmarshal makes of them,
\* "chars" is text given character by character.
Fence == [k |-> "fence", p |-> NoPath]
Yaml(ok, config) == [k |-> "yaml", p |-> NoPath, ok |-> ok, cfg |-> config]
Chars(c) == [k |-> "chars", p |-> NoPath, c |-> c]

\* the exit codes of run
ExitSuccess == 0
ExitInvalidArgs == 2
ExitFileError == 3
ExitConfigError == 4
ExitTemplateError == 5
ExitAIError == 6

\* string(content): the characters a sequence of tokens stands for
SegChars(seg) ==
    CASE seg = ".." -> <<".", ".">>
      [] seg = "pp" -> <<"p", "p">>
      [] OTHER -> <<seg>>
PathChars(path) ==
    LET elems == Concat([i \in 1..Len(path.segs) |->
                    (IF i > 1 THEN <<"/">> ELSE <<>>)
                    \o SegChars(path.segs[i])])
    IN (IF path.abs THEN <<"/">> ELSE <<>>) \o elems

TokenChars(t) ==
    CASE t.k = "chars" -> t.c
      [] t.k = "fence" -> <<"-", "-", "-", "\n">>
      [] t.k = "yaml" -> <<"y", ":", "\n">>
      [] t.k = "open" -> <<"{", "{", "i", "n", "c", "l", "u", "d", "e", " ",
                           "\"">>
      [] t.k = "close" -> <<"\"", "}", "}">>
      [] t.k = "word" -> PathChars(t.p)

String(text) == Concat([i \in 1..Len(text) |-> TokenChars(text[i])])

\* strings.TrimSpace
IsSpace(c) == c \in {" ", "\n"}
RECURSIVE TrimLeft(_)
TrimLeft(cs) ==
    IF cs # <<>> /\ IsSpace(Head(cs)) THEN TrimLeft(Tail(cs)) ELSE cs
RECURSIVE TrimRight(_)
TrimRight(cs) ==
    IF cs # <<>> /\ IsSpace(cs[Len(cs)])
    THEN TrimRight(SubSeq(cs, 1, Len(cs) - 1)) ELSE cs
TrimSpace(cs) == TrimRight(TrimLeft(cs))

\* a token that ends its line
EndsLine(t) == t.k \in {"fence", "yaml"}

\* config.ParseFrontmatter.  Without a leading --- line the whole text is
\* the markdown.  Otherwise the frontmatter ends at the first --- line that
\* follows a line end in what comes after the leading line; the lines in
\* between go to yaml.Unmarshal and the rest, trimmed, is the markdown.
ParseFrontmatter(text) ==
    IF text = <<>> \/ text[1] # Fence
    THEN [cfg |-> EmptyConfig, markdown |-> String(text), err |-> FALSE]
    ELSE LET rest == Tail(text)
             closes == {j \in 2..Len(rest) :
                           rest[j] = Fence /\ EndsLine(rest[j - 1])}
         IN IF closes = {}
            THEN [cfg |-> EmptyConfig, markdown |-> <<>>, err |-> TRUE]
            ELSE LET j == CHOOSE x \in closes : \A y \in closes : x <= y
                     yamlContent == SubSeq(rest, 1, j - 1)
                     after == SubSeq(rest, j + 1, Len(rest))
                 IN IF \E i \in 1..Len(yamlContent) :
                          yamlContent[i].k # "yaml" \/ ~yamlContent[i].ok
                    THEN [cfg |-> EmptyConfig, markdown |-> <<>>,
                          err |-> TRUE]
                    ELSE [cfg |-> yamlContent[Len(yamlContent)].cfg,
                          markdown |-> TrimSpace(String(after)),
                          err |-> FALSE]

\* Config.Validate: TRUE when it returns an error
HarmCategories ==
    {"hate_speech", "dangerous_content", "sexually_explicit", "harassment"}
SafetyThresholds ==
    {"BLOCK_NONE", "BLOCK_ONLY_HIGH", "BLOCK_MEDIUM_AND_ABOVE",
     "BLOCK_LOW_AND_ABOVE"}
Validate(config) ==
    \E cat \in DOMAIN config.SafetySettings :
        \/ cat \notin HarmCategories
        \/ config.SafetySettings[cat] \notin SafetyThresholds

\* schema.FormatResponse: JSON is indented, any other text is left alone
JsonText == <<"[", "1", "]">>
FormatResponse(response) ==
    IF response = JsonText
    THEN <<"[", "\n", " ", " ", "1", "\n", "]">>
    ELSE response
ResponseTexts == {<<"r">>, JsonText}

\* what summary.Display prints
SummaryText == <<"s", "u", "m", "m", "a", "r", "y", "\n">>

\* --- the inputs of a run
\* values that tell the three sources of variables apart
CliValue == <<"c">>
FrontValue == <<"f">>
EnvValue == <<"e">>
\* a value that spells an include directive for the file b
IncludeValue ==
    <<"{", "{", "i", "n", "c", "l", "u", "d", "e", " ", "\"", "b", "\"",
      "}", "}">>

OutputFiles == {"", "out"}

\* ParseCLIFlags is not among the sources: run is modelled for each of its
\* results, the error and the options with the remaining arguments.
CliResults ==
    {NoFlags} \cup
    {[err |-> FALSE, args |-> a, Variables |-> v, OutputFile |-> o,
      NoSummary |-> n, ShowPromptOnly |-> sp] :
        a \in {<<>>, <<RelPath(<<"a">>)>>},
        v \in {<<>>, (<<"a">> :> CliValue), (<<"a">> :> IncludeValue)},
        o \in OutputFiles, n \in BOOLEAN, sp \in BOOLEAN}

EnvMaps ==
    {<<>>, (<<"a">> :> EnvValue), (<<"a">> :> IncludeValue),
     (<<"a">> :> EnvValue) @@ (<<"b">> :> EnvValue)}

ConfigWith(variables_, safety, schema) ==
    [Model |-> "", Variables |-> variables_, SafetySettings |-> safety,
     ResponseSchema |-> schema]
\* a frontmatter that only names the model
ConfigModel(model) == [EmptyConfig EXCEPT !.Model = model]

Frontmatters ==
    {<<>>,
     <<Fence, Yaml(TRUE, ConfigWith((<<"a">> :> FrontValue), <<>>, FALSE)),
       Fence>>,
     <<Fence, Yaml(TRUE, ConfigWith((<<"a">> :> IncludeValue), <<>>, FALSE)),
       Fence>>,
     <<Fence, Yaml(TRUE, ConfigWith(<<>>,
                      ("harassment" :> "BLOCK_NONE"), TRUE)), Fence>>,
     <<Fence, Yaml(TRUE, ConfigWith(<<>>, ("harassment" :> "NEVER"), FALSE)),
       Fence>>,
     <<Fence, Yaml(TRUE, ConfigWith(<<>>, ("other" :> "BLOCK_NONE"), FALSE)),
       Fence>>,
     <<Fence, Yaml(TRUE, ConfigModel("gemini-2.0-flash-001")), Fence>>,
     <<Fence, Yaml(TRUE, ConfigModel("invalid")), Fence>>,
     <<Fence, Yaml(FALSE, EmptyConfig), Fence>>,
     <<Fence, Yaml(TRUE, EmptyConfig)>>,
     <<Fence, Fence>>}

PlaceholderA == <<"{", "{", "a", "}", "}">>
PlaceholderB == <<"{", "{", "b", "|", "1", "}", "}">>

RunTexts ==
    {<<Chars(PlaceholderA)>>,
     <<Chars(PlaceholderA \o <<" ">>)>>,
     <<Chars(PlaceholderA), Open, Word(RelPath(<<"b">>)), Close>>,
     <<Chars(PlaceholderB), Open, Word(RelPath(<<"..", "s">>)), Close>>,
     <<Open, Word(RelPath(<<"a">>)), Close>>,
     <<Open, Word(RelPath(<<"d", "c">>)), Close>>}

\* the file systems of a run: the template a, or none, and the file b
RunFileSystems ==
    {(FileB :> <<Chars(<<"{", "{", "b", "}", "}">>)>>)}
    \cup {(FileA :> (f \o t)) @@ (FileB :> <<Chars(<<"{", "{", "b", "}", "}">>)>>) :
            f \in Frontmatters, t \in RunTexts}

\* run(opts) has been called
RunInit ==
    /\ CallIdle
    /\ SubstIdle
    /\ MergeIdle
    /\ fs \in RunFileSystems
    /\ templateFile = NoPath
    /\ stack = <<>>
    /\ Visited = {}
    /\ BaseDir = NoPath
    /\ ret = NoRet
    /\ reads = <<>>
    /\ backEdges = {}
    /\ steps = 0
    /\ runPc = "flags"
    /\ cliOpts = NoFlags
    /\ contentWithIncludes = <<>>
    /\ cfg = EmptyConfig
    /\ envVars = <<>>
    /\ markdown = <<>>
    /\ finalMarkdown = <<>>
    /\ output = <<>>
    /\ effects = <<>>
    /\ runErr = NoRunErr

Effect(op, name, arg, ok) == [op |-> op, name |-> name, arg |-> arg, ok |-> ok]

\* return &exitError{code, ...}; kind tells the failures apart
ExitError(code, kind) == [set |-> TRUE, code |-> code, kind |-> kind]
ReturnNil == [set |-> TRUE, code |-> ExitSuccess, kind |-> "nil"]

\* the exit code run gives to a failure of ProcessIncludes
IncludeErrorCodeByKind(kind) ==
    CASE kind = "escape" -> 7
      [] kind = "circular" -> 8
      [] OTHER -> ExitTemplateError

IncludeErrorCode(kind) == ExitTemplateError

\* lines 84-93
RunParseFlags ==
    /\ runPc = "flags"
    /\ \E parsed \in CliResults :
          /\ cliOpts' = parsed
          /\ IF parsed.err
             THEN /\ runErr' = ExitError(ExitInvalidArgs, "flags")
                  /\ runPc' = "done"
                  /\ templateFile' = templateFile
             ELSE IF Len(parsed.args) < 1
             THEN /\ runErr' = ExitError(ExitInvalidArgs, "argument")
                  /\ runPc' = "done"
                  /\ templateFile' = templateFile
             ELSE /\ runErr' = runErr
                  /\ runPc' = "read"
                  /\ templateFile' = parsed.args[1]
    /\ UNCHANGED <<fs, stack, Visited, BaseDir, ret, reads, backEdges, steps>>
    /\ UNCHANGED <<contentWithIncludes, cfg, envVars, markdown,
                   finalMarkdown, output, effects>>
    /\ UNCHANGED <<substVars, mergeVars, callVars>>

\* line 101, string(content): the text run hands to ProcessIncludes
TemplateTextWithVariables(text, opts) ==
    IF <<"a">> \in DOMAIN opts.Variables
    THEN Concat([i \in 1..Len(text) |->
                    IF text[i] = Chars(PlaceholderA)
                       /\ opts.Variables[<<"a">>] = IncludeValue
                    THEN <<Open, Word(RelPath(<<"b">>)), Close>>
                    ELSE <<text[i]>>])
    ELSE text

TemplateText(text, opts) == text

\* lines 95-101: the template is read, a fresh context is made and
\* ProcessIncludes is called on the template's text
RunReadTemplate ==
    /\ runPc = "read"
    /\ LET ok == FileExists(fs, Abs(templateFile))
       IN /\ effects' = Append(effects,
                                Effect("readFile", templateFile, <<>>, ok))
          /\ IF ~ok
             THEN /\ runErr' = ExitError(ExitFileError, "template")
                  /\ runPc' = "done"
                  /\ UNCHANGED <<stack, Visited, BaseDir>>
             ELSE /\ stack' = <<PIFrame(templateFile,
                                        TemplateText(fs[Abs(templateFile)],
                                                     cliOpts))>>
                  /\ Visited' = NewVisited(templateFile)
                  /\ BaseDir' = NewBaseDir(templateFile)
                  /\ runPc' = "includes"
                  /\ runErr' = runErr
    /\ UNCHANGED <<fs, templateFile, ret, reads, backEdges, steps>>
    /\ UNCHANGED <<cliOpts, contentWithIncludes, cfg, envVars, markdown,
                   finalMarkdown, output>>
    /\ UNCHANGED <<substVars, mergeVars, callVars>>

\* lines 101-104: ProcessIncludes has returned
RunIncludesReturned ==
    /\ runPc = "includes"
    /\ stack = <<>> /\ ret.set
    /\ IF ret.err.kind # "nil"
       THEN /\ runErr' = ExitError(IncludeErrorCode(ret.err.kind),
                                   ret.err.kind)
            /\ runPc' = "done"
            /\ contentWithIncludes' = contentWithIncludes
       ELSE /\ contentWithIncludes' = ret.text
            /\ runPc' = "frontmatter"
            /\ runErr' = runErr
    /\ UNCHANGED includeVars
    /\ UNCHANGED <<cliOpts, cfg, envVars, markdown, finalMarkdown, output,
                   effects>>
    /\ UNCHANGED <<substVars, mergeVars, callVars>>

\* lines 106-109
RunParseFrontmatter ==
    /\ runPc = "frontmatter"
    /\ LET parsed == ParseFrontmatter(contentWithIncludes)
       IN IF parsed.err
          THEN /\ runErr' = ExitError(ExitConfigError, "frontmatter")
               /\ runPc' = "done"
               /\ UNCHANGED <<cfg, markdown>>
          ELSE /\ cfg' = parsed.cfg
               /\ markdown' = parsed.markdown
               /\ runPc' = "validate"
               /\ runErr' = runErr
    /\ UNCHANGED includeVars
    /\ UNCHANGED <<cliOpts, contentWithIncludes, envVars, finalMarkdown,
                   output, effects>>
    /\ UNCHANGED <<substVars, mergeVars, callVars>>

\* lines 111-115: where run goes on after cfg.Validate()
AfterValidateIgnoringError(failed) == "merge"

AfterValidate(failed) == IF failed THEN "done" ELSE "merge"

\* lines 111-113
RunValidate ==
    /\ runPc = "validate"
    /\ runPc' = AfterValidate(Validate(cfg))
    /\ runErr' = IF Validate(cfg)
                 THEN ExitError(ExitConfigError, "validate")
                 ELSE runErr
    /\ UNCHANGED includeVars
    /\ UNCHANGED <<cliOpts, contentWithIncludes, cfg, envVars, markdown,
                   finalMarkdown, output, effects>>
    /\ UNCHANGED <<substVars, mergeVars, callVars>>

\* the order in which run hands the sources to MergeVariables
RunSourcesCliFirst(env, config, opts) ==
    <<opts.Variables, config.Variables, env>>

RunSources(env, config, opts) ==
    <<env, config.Variables, opts.Variables>>

\* lines 115-118: the variables are merged and ReplacePlaceholders is
\* called on the markdown
RunMergeVariables ==
    /\ runPc = "merge"
    /\ envVars' \in EnvMaps
    /\ sources' = RunSources(envVars', cfg, cliOpts)
    /\ mergeOut' = [set |-> TRUE, vars |-> MergeVariables(sources')]
    /\ variables' = mergeOut'.vars
    /\ content' = markdown
    /\ searchPos' = 1
    /\ result' = <<>>
    /\ missingMap' = {}
    /\ subPc' = "replace"
    /\ out' = NoOut
    /\ replaced' = <<>>
    /\ runPc' = "replace"
    /\ UNCHANGED includeVars
    /\ UNCHANGED <<cliOpts, contentWithIncludes, cfg, markdown,
                   finalMarkdown, output, effects, runErr>>
    /\ UNCHANGED callVars

\* line 124: where run goes on after the placeholders
AfterPlaceholdersAlwaysAI(opts) == "callAI"

AfterPlaceholders(opts) == IF opts.ShowPromptOnly THEN "show" ELSE "callAI"

\* lines 118-124: ReplacePlaceholders has returned
RunPlaceholdersReturned ==
    /\ runPc = "replace"
    /\ subPc = "done"
    /\ IF out.err
       THEN /\ runErr' = ExitError(ExitTemplateError, "missing")
            /\ runPc' = "done"
            /\ finalMarkdown' = finalMarkdown
       ELSE /\ finalMarkdown' = out.text
            /\ runPc' = AfterPlaceholders(cliOpts)
            /\ runErr' = runErr
    /\ UNCHANGED includeVars
    /\ UNCHANGED <<cliOpts, contentWithIncludes, cfg, envVars, markdown,
                   output, effects>>
    /\ UNCHANGED <<substVars, mergeVars, callVars>>

\* runOptions.writeOutput, lines 75-81: what it adds to the effects when
\* writeFile answers ok
WriteOutputBoth(opts, text, ok) ==
    IF opts.OutputFile # ""
    THEN <<Effect("writeFile", opts.OutputFile, text, ok),
           Effect("stdout", "", text \o <<"\n">>, TRUE)>>
    ELSE <<Effect("stdout", "", text \o <<"\n">>, TRUE)>>

WriteOutput(opts, text, ok) ==
    IF opts.OutputFile # ""
    THEN <<Effect("writeFile", opts.OutputFile, text, ok)>>
    ELSE <<Effect("stdout", "", text \o <<"\n">>, TRUE)>>

\* writeOutput returns an error when writeFile does
WriteOutputNeverFails(opts, ok) == FALSE

WriteOutputFails(opts, ok) == opts.OutputFile # "" /\ ~ok

\* lines 124-129
RunShowPrompt ==
    /\ runPc = "show"
    /\ \E ok \in BOOLEAN :
          /\ effects' = effects \o WriteOutput(cliOpts, finalMarkdown, ok)
          /\ runErr' = IF WriteOutputFails(cliOpts, ok)
                       THEN ExitError(ExitFileError, "write")
                       ELSE ReturnNil
    /\ runPc' = "done"
    /\ UNCHANGED includeVars
    /\ UNCHANGED <<cliOpts, contentWithIncludes, cfg, envVars, markdown,
                   finalMarkdown, output>>
    /\ UNCHANGED <<substVars, mergeVars, callVars>>

\* lines 131-140
RunCallAI ==
    /\ runPc = "callAI"
    /\ \/ /\ effects' = Append(effects,
                               Effect("callAI", "", finalMarkdown, FALSE))
          /\ runErr' = ExitError(ExitAIError, "ai")
          /\ runPc' = "done"
          /\ output' = output
       \/ \E text \in ResponseTexts :
             /\ effects' = Append(effects,
                                  Effect("callAI", "", finalMarkdown, TRUE))
             /\ output' = IF cfg.ResponseSchema THEN FormatResponse(text)
                                                ELSE text
             /\ runPc' = "write"
             /\ runErr' = runErr
    /\ UNCHANGED includeVars
    /\ UNCHANGED <<cliOpts, contentWithIncludes, cfg, envVars, markdown,
                   finalMarkdown>>
    /\ UNCHANGED <<substVars, mergeVars, callVars>>

\* lines 142-144
RunWriteOutput ==
    /\ runPc = "write"
    /\ \E ok \in BOOLEAN :
          /\ effects' = effects \o WriteOutput(cliOpts, output, ok)
          /\ IF WriteOutputFails(cliOpts, ok)
             THEN /\ runErr' = ExitError(ExitFileError, "write")
                  /\ runPc' = "done"
             ELSE /\ runErr' = runErr
                  /\ runPc' = "summary"
    /\ UNCHANGED includeVars
    /\ UNCHANGED <<cliOpts, contentWithIncludes, cfg, envVars, markdown,
                   finalMarkdown, output>>
    /\ UNCHANGED <<substVars, mergeVars, callVars>>

\* whether run prints the summary
PrintsSummaryAlways(opts) == TRUE

PrintsSummary(opts) == ~opts.NoSummary

\* lines 146-152
RunSummary ==
    /\ runPc = "summary"
    /\ effects' = IF PrintsSummary(cliOpts)
                  THEN Append(effects, Effect("stderr", "", SummaryText, TRUE))
                  ELSE effects
    /\ runErr' = ReturnNil
    /\ runPc' = "done"
    /\ UNCHANGED includeVars
    /\ UNCHANGED <<cliOpts, contentWithIncludes, cfg, envVars, markdown,
                   finalMarkdown, output>>
    /\ UNCHANGED <<substVars, mergeVars, callVars>>

RunNext ==
    \/ RunParseFlags
    \/ RunReadTemplate
    \/ Scan
    \/ ValidateSecurity
    \/ CheckCircular
    \/ ReadIncludedFile
    \/ ProcessIncludeFileReturn
    \/ IncludeReturned
    \/ RunIncludesReturned
    \/ RunParseFrontmatter
    \/ RunValidate
    \/ RunMergeVariables
    \/ ReplaceMatch
    \/ ReplaceRest
    \/ ReturnMissing
    \/ ReturnResult
    \/ RunPlaceholdersReturned
    \/ RunShowPrompt
    \/ RunCallAI
    \/ RunWriteOutput
    \/ RunSummary

RunSpec == RunInit /\ [][RunNext]_vars

\* run has returned
RunDone == runPc = "done"

\* ------------------------------------------------------- ParseVarFlags
\* The longest argument list of the model.  Arguments are sequences of
\* characters.
MaxArgs == 5

FlagVar == <<"-", "-", "v", "a", "r">>
FlagV == <<"-", "v">>

\* the position of the first and of the last "=" of s, 0 when there is none
FirstEquals(s) ==
    LET hits == {k \in 1..Len(s) : s[k] = "="}
    IN IF hits = {} THEN 0 ELSE CHOOSE k \in hits : \A j \in hits : k <= j
LastEquals(s) ==
    LET hits == {k \in 1..Len(s) : s[k] = "="}
    IN IF hits = {} THEN 0 ELSE CHOOSE k \in hits : \A j \in hits : k >= j

\* strings.SplitN(varDef, "=", 2)
SplitNAtLast(varDef) ==
    LET k == LastEquals(varDef)
    IN IF k = 0 THEN <<varDef>>
       ELSE <<SubSeq(varDef, 1, k - 1), SubSeq(varDef, k + 1, Len(varDef))>>

SplitN(varDef) ==
    LET k == FirstEquals(varDef)
    IN IF k = 0 THEN <<varDef>>
       ELSE <<SubSeq(varDef, 1, k - 1), SubSeq(varDef, k + 1, Len(varDef))>>

\* return nil, nil, err
ParseError == [NoParse EXCEPT !.set = TRUE, !.err = TRUE]

\* lines 167-191: the loop, i counted from 1
RECURSIVE ParseVarLoop(_, _, _, _)
ParseVarLoop(args, i, vs, remaining) ==
    IF i > Len(args)
    THEN [NoParse EXCEPT !.set = TRUE, !.Variables = vs,
                         !.remaining = remaining]
    ELSE IF args[i] = FlagVar \/ args[i] = FlagV
         THEN IF i + 1 > Len(args) THEN ParseError
              ELSE LET parts == SplitN(args[i + 1])
                   IN IF Len(parts) # 2 THEN ParseError
                      ELSE ParseVarLoop(args, i + 2,
                               (parts[1] :> parts[2]) @@ vs, remaining)
         ELSE ParseVarLoop(args, i + 1, vs, Append(remaining, args[i]))

ParseVarFlags(args) == ParseVarLoop(args, 1, <<>>, <<>>)

VarArgs ==
    {FlagVar, FlagV, <<"a", "=", "1">>, <<"a", "=", "b", "=", "1">>,
     <<"b", "=">>, <<"f">>}

\* ParseVarFlags(argv) is about to be called
ParseVarInit ==
    /\ IncludeIdle
    /\ SubstIdle
    /\ MergeIdle
    /\ RunIdle
    /\ argv \in UNION {[1..n -> VarArgs] : n \in 0..MaxArgs}
    /\ parseOut = NoParse
    /\ checkArgs = <<>>
    /\ checkOut = NoCheck

ParseVarCall ==
    /\ ~parseOut.set
    /\ parseOut' = ParseVarFlags(argv)
    /\ UNCHANGED <<argv, checkArgs, checkOut>>
    /\ UNCHANGED <<includeVars, substVars, mergeVars, runVars>>

ParseVarNext == ParseVarCall

ParseVarSpec == ParseVarInit /\ [][ParseVarNext]_vars

\* ------------------------------------------------ the project-root checks
\* The check of the earlier processIncludes, a prefix test on the two path
\* strings, and validatePathSecurity, each applied to the path an include
\* reference resolves to from a template in the working directory.
MaxSegs == 3

\* strings.HasPrefix
HasPrefix(str, prefix) ==
    Len(str) >= Len(prefix) /\ SubSeq(str, 1, Len(prefix)) = prefix

\* the earlier check: TRUE when the path is accepted
prefixPathSecurity(absPath) ==
    LET projectRoot == Abs(RelPath(<<>>))
    IN HasPrefix(PathChars(absPath), PathChars(projectRoot))

CheckAnswer(accepted) == IF accepted THEN "nil" ELSE "outside"

SegNames == {"p", "pp", "a", ".."}
CheckPaths ==
    UNION {{RelPath(segs), AbsPath(segs)} :
              segs \in UNION {[1..n -> SegNames] : n \in 0..MaxSegs}}

RootCheckInit ==
    /\ IncludeIdle
    /\ SubstIdle
    /\ MergeIdle
    /\ RunIdle
    /\ argv = <<>>
    /\ parseOut = NoParse
    /\ \E path \in CheckPaths :
          checkArgs = <<ResolveAbsolutePath(path, RelPath(<<>>))>>
    /\ checkOut = NoCheck

PrefixCheck ==
    /\ checkArgs # <<>>
    /\ checkOut.prefix = ""
    /\ checkOut' = [checkOut EXCEPT
                       !.prefix = CheckAnswer(prefixPathSecurity(checkArgs[1]))]
    /\ UNCHANGED <<argv, parseOut, checkArgs>>
    /\ UNCHANGED <<includeVars, substVars, mergeVars, runVars>>

RelCheck ==
    /\ checkArgs # <<>>
    /\ checkOut.rel = ""
    /\ checkOut' = [checkOut EXCEPT
                       !.rel = CheckAnswer(validatePathSecurity(checkArgs[1]))]
    /\ UNCHANGED <<argv, parseOut, checkArgs>>
    /\ UNCHANGED <<includeVars, substVars, mergeVars, runVars>>

RootCheckNext ==
    \/ PrefixCheck
    \/ RelCheck

RootCheckSpec == RootCheckInit /\ [][RootCheckNext]_vars

\* ------------------------------------------------------- ParseCLIFlags
\* ParseCLIFlags is not among the sources.  It is modelled after the plan
\* that introduces it (plans/001-summary.md, phase 2) and its tests: the
\* loop of ParseVarFlags with two more kinds of flag.
FlagO == <<"-", "o">>
FlagOutput == <<"-", "-", "o", "u", "t", "p", "u", "t">>
FlagNoSummary ==
    <<"-", "-", "n", "o", "-", "s", "u", "m", "m", "a", "r", "y">>

\* "Check opts.OutputFile is not already set"
AlreadySetNever(outputFile) == FALSE

AlreadySet(outputFile) == outputFile # <<>>

RECURSIVE ParseCLILoop(_, _, _)
ParseCLILoop(args, i, opts) ==
    IF i > Len(args) THEN [opts EXCEPT !.set = TRUE]
    ELSE IF args[i] = FlagVar \/ args[i] = FlagV
         THEN IF i + 1 > Len(args) THEN ParseError
              ELSE LET parts == SplitN(args[i + 1])
                   IN IF Len(parts) # 2 THEN ParseError
                      ELSE ParseCLILoop(args, i + 2,
                              [opts EXCEPT !.Variables =
                                  (parts[1] :> parts[2]) @@ opts.Variables])
    ELSE IF args[i] = FlagO \/ args[i] = FlagOutput
         THEN IF i + 1 > Len(args) THEN ParseError
              ELSE IF AlreadySet(opts.OutputFile) THEN ParseError
              ELSE ParseCLILoop(args, i + 2,
                      [opts EXCEPT !.OutputFile = args[i + 1]])
    ELSE IF args[i] = FlagNoSummary
         THEN ParseCLILoop(args, i + 1, [opts EXCEPT !.NoSummary = TRUE])
    ELSE ParseCLILoop(args, i + 1,
            [opts EXCEPT !.remaining = Append(opts.remaining, args[i])])

ParseCLIFlags(args) == ParseCLILoop(args, 1, NoParse)

CLIArgs ==
    {FlagO, FlagOutput, FlagNoSummary, FlagV, <<"a", "=", "1">>, <<"f">>,
     <<"g">>}

\* ParseCLIFlags(argv) is about to be called
ParseCLIInit ==
    /\ IncludeIdle
    /\ SubstIdle
    /\ MergeIdle
    /\ RunIdle
    /\ argv \in UNION {[1..n -> CLIArgs] : n \in 0..MaxArgs}
    /\ parseOut = NoParse
    /\ checkArgs = <<>>
    /\ checkOut = NoCheck

ParseCLICall ==
    /\ ~parseOut.set
    /\ parseOut' = ParseCLIFlags(argv)
    /\ UNCHANGED <<argv, checkArgs, checkOut>>
    /\ UNCHANGED <<includeVars, substVars, mergeVars, runVars>>

ParseCLINext == ParseCLICall

ParseCLISpec == ParseCLIInit /\ [][ParseCLINext]_vars

\* ------------------------------------------------------------------ claims

\* C1: an include reference whose cleaned absolute path lies outside the
\* project root gets the "outside the project directory" error at the
\* security check, whatever Visited holds, the error reaches the caller
\* unchanged, and no path outside the root is ever handed to os.ReadFile.
C1_EscapeRejectedBeforeRead ==
    /\ [](\A i \in 1..Len(reads) : IsUnderRoot(reads[i]))
    /\ [][(AtStep("security") /\ ~IsUnderRoot(Top.absPath))
            => /\ ret'.set /\ ret'.err.kind = "escape"
               /\ ret'.err.absPath = Top.absPath
               /\ ret'.text = <<>>
               /\ reads' = reads /\ Visited' = Visited]_vars
    /\ [][(ret.set /\ ret.err.kind = "escape")
            => (ret'.err = ret.err /\ reads' = reads)]_vars

\* a nested include that leaves the root through "..", after a file was read
C1_Witness ==
    /\ Done /\ ret.err.kind = "escape"
    /\ ~ret.err.includePath.abs
    /\ Len(reads) >= 1
    /\ ~IsUnderRoot(ret.err.absPath)

\* C2 as claimed: whenever the expansion meets a directive whose target is
\* a file under expansion (a back-edge to an ancestor), the top-level call
\* returns the circular-include error.
C2_Original_BackEdgeGivesCircular ==
    (Done /\ backEdges # {}) => ret.err.kind = "circular"

\* C2 amended: a back-edge whose target lies under the project root ends the
\* top-level call with the circular-include error; the error names a file
\* under expansion at the moment of detection, a back-edge to a file entered
\* through an include is detected at that directive, and nothing is read
\* once the error is raised.
C2_CircularDetected ==
    /\ []((Done /\ \E p \in backEdges : IsUnderRoot(p))
             => ret.err.kind = "circular")
    /\ [][(AtStep("circular") /\ Top.absPath \in IncludedActive)
            => (ret'.set /\ ret'.err.kind = "circular"
                /\ ret'.err.absPath = Top.absPath)]_vars
    /\ [][(ret'.err.kind = "circular" /\ ret.err.kind # "circular")
            => ret'.err.absPath \in ActiveFiles]_vars
    /\ [][(ret.set /\ ret.err.kind = "circular")
            => (ret'.err = ret.err /\ reads' = reads)]_vars

\* a includes b, b includes a, started from a
C2_Witness ==
    /\ Done /\ ret.err.kind = "circular"
    /\ templateFile = RelPath(<<"a">>)
    /\ FileA \in backEdges
    /\ \E i \in 1..Len(reads) : reads[i] = FileB

\* C3 as claimed: on an acyclic graph of readable files under the root the
\* call returns the splice, and no directive remains in it.
C3_Original_SpliceWithoutDirective ==
    (Done /\ GraphOK)
        => /\ ret.err.kind = "nil"
           /\ ret.text = Expansion
           /\ ~HasDirective(ret.text)

\* every directive head in the files that can be reached starts a directive
NoFragments ==
    \A f \in Reachable \cap DOMAIN fs :
        \A i \in 1..Len(fs[f]) : fs[f][i] = Open => IsDirectiveAt(fs[f], i)

\* C3 amended: on an acyclic graph of readable files under the root the call
\* terminates without error and returns the splice; a directive remains in
\* the result only when some file holds the head of a directive without its
\* tail, so that the splice puts a directive together.
C3_AcyclicExpansion ==
    /\ (Done /\ GraphOK)
          => /\ ret.err.kind = "nil"
             /\ ret.text = Expansion
             /\ (NoFragments => ~HasDirective(ret.text))
    /\ (GraphOK => Terminates)

\* two directives in one file and a nested one, all expanded
C3_Witness ==
    /\ Done /\ GraphOK /\ ret.err.kind = "nil"
    /\ Len(reads) >= 3
    /\ ret.text = Expansion

\* C4: a file that is not under expansion is never reported as circular,
\* however often it was expanded before, and on an acyclic graph in which a
\* file is reached by two directives the call succeeds with the file's
\* expansion spliced in at each of them.
C4_DiamondAllowed ==
    /\ [][(AtStep("circular") /\ Top.absPath \notin ActiveFiles)
            => ~(ret'.set /\ ret'.err.kind = "circular")]_vars
    /\ []((Done /\ GraphOK
              /\ \E i, j \in 1..Len(reads) : i < j /\ reads[i] = reads[j])
             => (ret.err.kind = "nil" /\ ret.text = Expansion))

\* b is included by a and by d/c, which a includes too
C4_Witness ==
    /\ Done /\ ret.err.kind = "nil"
    /\ \E i, j \in 1..Len(reads) : i < j /\ reads[i] = reads[j]
    /\ \E i \in 1..Len(reads) : reads[i] = FileC

\* C5 as claimed: Visited is exactly the set of files whose expansion has
\* been entered and not left.
C5_VisitedIsActiveFiles == Visited = ActiveFiles

\* what the code keeps: Visited is the set of files entered through
\* processIncludeFile, the template is never in it unless it is included
VisitedIsIncludedActive == Visited = IncludedActive

\* C6: when processIncludeFile returns, with or without an error, BaseDir
\* and Visited are what they were when it was called and the path is not in
\* Visited; after the top-level call both have their initial values.
C6_RestoreUnconditional ==
    /\ [][(stack # <<>> /\ Top.fn = "processIncludeFile"
              /\ Len(stack') < Len(stack))
            => /\ BaseDir' = Top.baseAtCall
               /\ Visited' = Top.visitedAtCall
               /\ Top.absPath \notin Visited']_vars
    /\ [](Done => (Visited = {} /\ BaseDir = Dir(templateFile)))

\* an error raised two directories down has gone all the way up
C6_Witness ==
    /\ Done /\ Failed
    /\ \E i \in 1..Len(reads) : reads[i] = FileC
    /\ BaseDir = RelPath(<<>>) /\ Visited = {}

\* ------------------------------------------- the placeholder grammar
\* {{NAME}} and {{NAME|DEFAULT}} as the documentation gives them: NAME is a
\* letter or underscore followed by letters, digits and underscores, DEFAULT
\* is any text without a closing brace.
IsName(s) ==
    /\ s # <<>>
    /\ s[1] \in NameStart
    /\ \A k \in 1..Len(s) : s[k] \in NameChar

Braces(i, j) ==
    /\ i >= 1 /\ j <= Len(content) /\ j >= i + 4
    /\ content[i] = "{" /\ content[i + 1] = "{"
    /\ content[j - 1] = "}" /\ content[j] = "}"

\* content[i..j] is {{NAME}}
PlainAt(i, j) == Braces(i, j) /\ IsName(SubSeq(content, i + 2, j - 2))

\* content[i..j] is {{NAME|DEFAULT}} with the pipe at p
DefaultAt(i, p, j) ==
    /\ Braces(i, j)
    /\ p > i + 2 /\ p <= j - 2
    /\ content[p] = "|"
    /\ IsName(SubSeq(content, i + 2, p - 1))
    /\ \A k \in (p + 1)..(j - 2) : content[k] # "}"

Placeholders(i) ==
    {[start |-> i, stop |-> j + 1, hasDefault |-> FALSE,
      name |-> SubSeq(content, i + 2, j - 2), default |-> <<>>] :
        j \in {e \in (i + 4)..Len(content) : PlainAt(i, e)}}
    \cup
    {[start |-> i, stop |-> pj[2] + 1, hasDefault |-> TRUE,
      name |-> SubSeq(content, i + 2, pj[1] - 1),
      default |-> SubSeq(content, pj[1] + 1, pj[2] - 2)] :
        pj \in {x \in ((i + 3)..Len(content)) \X ((i + 5)..Len(content)) :
                   DefaultAt(i, x[1], x[2])}}

\* the placeholder occurrences of content, left to right, none inside
\* another
RECURSIVE OccurrencesFrom(_)
OccurrencesFrom(i) ==
    IF i > Len(content) THEN {}
    ELSE IF Placeholders(i) = {} THEN OccurrencesFrom(i + 1)
    ELSE LET o == CHOOSE x \in Placeholders(i) : TRUE
         IN {o} \cup OccurrencesFrom(o.stop)

Occurrences == OccurrencesFrom(1)

Defined(o) == o.name \in DOMAIN variables

HasToken(text) ==
    \E i \in 1..(Len(text) - 1) :
        \/ text[i] = "{" /\ text[i + 1] = "{"
        \/ text[i] = "}" /\ text[i + 1] = "}"

IsSortedListOf(list, names) ==
    /\ Len(list) = Cardinality(names)
    /\ {list[k] : k \in 1..Len(list)} = names
    /\ \A k \in 1..(Len(list) - 1) : StringLess(list[k], list[k + 1])

Returned == subPc = "done"

\* C7 as claimed: when N >= 1 distinct names stand in placeholders of the
\* form {{name}} and are not in variables, the call returns the error and
\* its list is exactly those N names, each once, sorted.
C7_MissingListIsPlainNames ==
    Returned =>
        LET missing == {o.name : o \in {x \in Occurrences :
                                          ~x.hasDefault /\ ~Defined(x)}}
        IN missing # {} =>
              (out.err /\ IsSortedListOf(out.missingList, missing))

\* what the code keeps: without an unset name under an empty default in
\* the text, the list is exactly the plain missing names, sorted
MissingListWithoutEmptyDefaults ==
    (\A o \in Occurrences :
        ~(o.hasDefault /\ o.default = <<>> /\ ~Defined(o)))
       => C7_MissingListIsPlainNames

\* C8 as claimed: {{name|}} with name not in variables is replaced by the
\* empty string, and the name is not recorded as missing on its account.
C8_EmptyDefaultResolves ==
    LET occs == Occurrences
    IN \A k \in 1..Len(replaced) : \A o \in occs :
        (o.start = replaced[k].start /\ o.hasDefault /\ o.default = <<>>
            /\ ~Defined(o))
        => /\ replaced[k].rep = <<>>
           /\ (o.name \in missingMap
                 => \E x \in occs : x.name = o.name /\ ~x.hasDefault)

\* the text with every occurrence replaced by its value or, failing that,
\* its default
RECURSIVE Substituted(_, _)
Substituted(i, occs) ==
    IF i > Len(content) THEN <<>>
    ELSE IF \E o \in occs : o.start = i
         THEN LET o == CHOOSE x \in occs : x.start = i
              IN (IF Defined(o) THEN variables[o.name] ELSE o.default)
                    \o Substituted(o.stop, occs)
         ELSE <<content[i]>> \o Substituted(i + 1, occs)

\* C9: every occurrence is handed to the callback once, in order; an
\* occurrence whose name is in variables is replaced by the value, default
\* or not; one whose name is absent and whose default is not empty is
\* replaced by the default; and the text returned on success is the text
\* with these replacements made, the inserted text left as it is.
C9_ValueThenDefault ==
    LET occs == Occurrences
    IN /\ {replaced[k].start : k \in 1..Len(replaced)}
             = {o.start : o \in {x \in occs : x.start < searchPos}}
       /\ \A k \in 1..(Len(replaced) - 1) :
             replaced[k].stop <= replaced[k + 1].start
       /\ \A k \in 1..Len(replaced) : \A o \in occs :
             o.start = replaced[k].start
             => /\ replaced[k].stop = o.stop
                /\ Defined(o) => replaced[k].rep = variables[o.name]
                /\ (~Defined(o) /\ o.default # <<>>)
                      => replaced[k].rep = o.default
       /\ (Returned /\ ~out.err) => out.text = Substituted(1, occs)

\* {{a|1}} with a set to the text {{b}}: the value wins over the default
\* and stays as it is, although b is set too
C9_Witness ==
    /\ Returned /\ ~out.err
    /\ content = <<"{", "{", "a", "|", "1", "}", "}">>
    /\ DOMAIN variables = VarNames
    /\ variables[<<"a">>] = <<"{", "{", "b", "}", "}">>
    /\ out.text = <<"{", "{", "b", "}", "}">>

\* the text with a blank in the place of every occurrence
RECURSIVE Skeleton(_, _)
Skeleton(i, occs) ==
    IF i > Len(content) THEN <<>>
    ELSE IF \E o \in occs : o.start = i
         THEN LET o == CHOOSE x \in occs : x.start = i
              IN <<" ">> \o Skeleton(o.stop, occs)
         ELSE <<content[i]>> \o Skeleton(i + 1, occs)

NoBrace(text) == \A i \in 1..Len(text) : text[i] \notin {"{", "}"}

\* C10 as claimed: when every occurrence names a variable of variables or
\* carries a default, the call succeeds and its result holds no {{ and
\* no }}.  Stated for the texts the claim is about: the braces of the text
\* all belong to its placeholders, and the values and defaults that are
\* put in hold no brace.
C10_NoTokenRemains ==
    LET occs == Occurrences
    IN (/\ Returned
        /\ \A o \in occs : Defined(o) \/ o.hasDefault
        /\ ~HasToken(Skeleton(1, occs))
        /\ \A o \in occs :
              NoBrace(IF Defined(o) THEN variables[o.name] ELSE o.default))
       => (~out.err /\ ~HasToken(out.text))

\* the same for occurrences whose default is not empty, the only defaults
\* the callback uses
NonEmptyDefaultsLeaveNoToken ==
    LET occs == Occurrences
    IN (/\ Returned
        /\ \A o \in occs : Defined(o) \/ o.default # <<>>
        /\ ~HasToken(Skeleton(1, occs))
        /\ \A o \in occs :
              NoBrace(IF Defined(o) THEN variables[o.name] ELSE o.default))
       => (~out.err /\ ~HasToken(out.text))

\* C11: a text without a placeholder occurrence comes back as it is, with
\* no error, whatever the variables are; the callback is never called and
\* no name is recorded.
C11_NoPlaceholderUnchanged ==
    Occurrences = {}
       => /\ replaced = <<>> /\ missingMap = {}
          /\ Returned => (~out.err /\ out.text = content)

\* {{1}}: braces around a digit make no placeholder; both variables are set
C11_Witness ==
    /\ Returned /\ ~out.err
    /\ content = <<"{", "{", "1", "}", "}">>
    /\ Occurrences = {}
    /\ DOMAIN variables = VarNames
    /\ out.text = content

\* C12: the mapping returned by MergeVariables has the union of the
\* sources' keys as its keys, and gives each key the value of the last
\* source that has it; the sources are left as they were.
C12_LastSourceWins ==
    mergeOut.set =>
        /\ DOMAIN mergeOut.vars
              = UNION {DOMAIN sources[i] : i \in 1..Len(sources)}
        /\ \A k \in DOMAIN mergeOut.vars :
              \E i \in 1..Len(sources) :
                 /\ k \in DOMAIN sources[i]
                 /\ \A j \in (i + 1)..Len(sources) : k \notin DOMAIN sources[j]
                 /\ mergeOut.vars[k] = sources[i][k]

\* a is set by the first and the second source to different values and is
\* absent from the third, which sets b alone
C12_Witness ==
    /\ mergeOut.set
    /\ Len(sources) = 3
    /\ DOMAIN sources[1] = {<<"a">>} /\ sources[1][<<"a">>] = <<"1">>
    /\ DOMAIN sources[2] = {<<"a">>} /\ sources[2][<<"a">>] = <<"b">>
    /\ DOMAIN sources[3] = {<<"b">>}
    /\ mergeOut.vars[<<"a">>] = <<"b">>
    /\ <<"b">> \in DOMAIN mergeOut.vars

\* ------------------------------------------------------ claims about run
\* the prompts run has shown or sent: what it wrote with --show-prompt-only
\* and what it handed to callAI
EffectsOf(op) == {i \in 1..Len(effects) : effects[i].op = op}

\* run has merged the variables
Merged == runPc \in {"replace", "show", "callAI", "write", "summary"}
              \/ (RunDone /\ mergeOut.set)

\* the value of a name by the documented precedence, CLI over frontmatter
\* over environment
DefinedBySource(n) ==
    n \in DOMAIN cliOpts.Variables \cup DOMAIN cfg.Variables
              \cup DOMAIN envVars
ValueByPrecedence(n) ==
    IF n \in DOMAIN cliOpts.Variables THEN cliOpts.Variables[n]
    ELSE IF n \in DOMAIN cfg.Variables THEN cfg.Variables[n]
    ELSE envVars[n]

\* C13: in a run, every placeholder whose name some source defines is
\* replaced by the --var value if there is one, else by the frontmatter
\* value, else by the environment value, and the prompt sent to the AI is
\* the markdown with these values put in.
C13_CliOverFrontmatterOverEnv ==
    Merged =>
       LET occs == Occurrences
       IN /\ content = markdown
          /\ \A k \in 1..Len(replaced) : \A o \in occs :
                (o.start = replaced[k].start /\ DefinedBySource(o.name))
                   => replaced[k].rep = ValueByPrecedence(o.name)
          /\ \A i \in EffectsOf("callAI") :
                /\ \A o \in occs : DefinedBySource(o.name) \/ o.default # <<>>
                /\ effects[i].arg = Substituted(1, occs)

\* a is set by all three sources, and the AI is sent the --var value
C13_Witness ==
    /\ RunDone /\ runErr.code = ExitSuccess
    /\ <<"a">> \in DOMAIN cliOpts.Variables
    /\ <<"a">> \in DOMAIN cfg.Variables
    /\ <<"a">> \in DOMAIN envVars
    /\ markdown = PlaceholderA
    /\ \E i \in EffectsOf("callAI") : effects[i].arg = CliValue

\* the failures a run can meet, read off what it was given and what its
\* calls answered
FlagsFailed == cliOpts.err \/ cliOpts.args = <<>>
FileFailed == \E i \in 1..Len(effects) :
                 effects[i].op \in {"readFile", "writeFile"} /\ ~effects[i].ok
ConfigFailed == ParseFrontmatter(contentWithIncludes).err \/ Validate(cfg)
TemplateFailed == Failed \/ out.err
AIFailed == \E i \in EffectsOf("callAI") : ~effects[i].ok

\* C14: the exit code of run is 2 for a flag error or a missing template
\* argument, 3 for an unreadable template or an output that cannot be
\* written, 4 for a frontmatter or validation error, 5 for an error of the
\* includes or the placeholders, 6 for a failed AI call, and run returns
\* nil exactly when none of these happened.
C14_ExitCodes ==
    RunDone =>
       /\ runErr.set
       /\ runErr.code \in {ExitSuccess, 2, 3, 4, 5, 6}
       /\ (runErr.code = 2) <=> FlagsFailed
       /\ (runErr.code = 3) <=> FileFailed
       /\ (runErr.code = 4) <=> ConfigFailed
       /\ (runErr.code = 5) <=> TemplateFailed
       /\ (runErr.code = 6) <=> AIFailed
       /\ (runErr.code = ExitSuccess) <=>
             ~(FlagsFailed \/ FileFailed \/ ConfigFailed \/ TemplateFailed
                  \/ AIFailed)

\* the AI answered and the output file could not be written
C14_Witness ==
    /\ RunDone /\ runErr.code = 3
    /\ \E i \in EffectsOf("callAI") : effects[i].ok
    /\ \E i \in EffectsOf("writeFile") : ~effects[i].ok

\* the error kinds of the core a run can meet
CoreKinds == {"escape", "circular", "read", "missing"}
IncludeKinds == {"escape", "circular", "read"}

\* C15 as claimed: every error kind of the core has an exit code of its
\* own.  Missing variables end run with ExitTemplateError, so none of the
\* include errors may.
C15_Original_DistinctExitCodes ==
    RunDone =>
       /\ runErr.kind = "missing" => runErr.code = ExitTemplateError
       /\ runErr.kind \in IncludeKinds => runErr.code # ExitTemplateError

\* C15 amended: every error kind of the core ends run with the one exit
\* code ExitTemplateError; the kinds are told apart by the error run wraps,
\* which is the error of the core as it was raised.
C15_OneCodeForCoreErrors ==
    RunDone =>
       /\ Failed => /\ runErr.code = ExitTemplateError
                     /\ runErr.kind = ret.err.kind
                     /\ runErr.kind \in IncludeKinds
       /\ (~Failed /\ out.err) => /\ runErr.code = ExitTemplateError
                                    /\ runErr.kind = "missing"
       /\ runErr.kind \in CoreKinds => runErr.code = ExitTemplateError

\* a circular include met in a run: the template includes itself
C15_Witness ==
    /\ RunDone /\ runErr.kind = "circular"
    /\ runErr.code = ExitTemplateError
    /\ ret.err.absPath = FileA

\* the effects that put text out
OutputEffects == EffectsOf("stdout") \cup EffectsOf("writeFile")

\* run has the prompt and --show-prompt-only was given
PromptShown ==
    /\ RunDone /\ ~cliOpts.err /\ cliOpts.ShowPromptOnly
    /\ subPc = "done" /\ ~out.err

\* the one output effect of a run carries text, to the file of -o or to
\* stdout
WroteOnce(text) ==
    /\ Cardinality(OutputEffects) = 1
    /\ \A i \in OutputEffects :
          IF cliOpts.OutputFile # ""
          THEN /\ effects[i].op = "writeFile"
               /\ effects[i].name = cliOpts.OutputFile
               /\ effects[i].arg = text
          ELSE /\ effects[i].op = "stdout"
               /\ effects[i].arg = text \o <<"\n">>

\* C16 as claimed: with --show-prompt-only run never calls the AI and
\* never writes a summary; once includes and placeholders are done it
\* writes the prompt to the output and returns success.
C16_Original_ShowPromptSucceeds ==
    (~cliOpts.err /\ cliOpts.ShowPromptOnly) =>
       /\ EffectsOf("callAI") = {} /\ EffectsOf("stderr") = {}
       /\ PromptShown => (WroteOnce(finalMarkdown)
                             /\ runErr.code = ExitSuccess)

\* C16 amended: with --show-prompt-only run never calls the AI and never
\* writes a summary; once includes and placeholders are done it hands the
\* prompt to the output once, and returns success unless writeFile fails,
\* in which case it returns ExitFileError.
C16_ShowPromptOnly ==
    (~cliOpts.err /\ cliOpts.ShowPromptOnly) =>
       /\ EffectsOf("callAI") = {} /\ EffectsOf("stderr") = {}
       /\ PromptShown =>
             /\ WroteOnce(finalMarkdown)
             /\ runErr.code = IF FileFailed THEN ExitFileError
                                            ELSE ExitSuccess

\* the prompt, with the --var value put in, written to the file of -o
C16_Witness ==
    /\ PromptShown /\ runErr.code = ExitSuccess
    /\ cliOpts.OutputFile = "out"
    /\ finalMarkdown = CliValue
    /\ \E i \in EffectsOf("writeFile") : effects[i].arg = CliValue

\* C17: the summary is written to stderr, never to stdout, exactly when the
\* AI call succeeded, the output was written and --no-summary was not
\* given; it is written once, after the output, and it ends the run.
C17_SummaryIffSuccess ==
    /\ \A i \in EffectsOf("stderr") :
          /\ effects[i].arg = SummaryText
          /\ i = Len(effects)
          /\ RunDone /\ runErr.code = ExitSuccess
          /\ \E j \in OutputEffects : j = i - 1 /\ effects[j].ok
    /\ \A i \in EffectsOf("stdout") : effects[i].arg # SummaryText
    /\ Cardinality(EffectsOf("stderr")) <= 1
    /\ RunDone =>
          (EffectsOf("stderr") # {}
             <=> /\ \E i \in EffectsOf("callAI") : effects[i].ok
                 /\ \E j \in OutputEffects : effects[j].ok
                 /\ ~cliOpts.NoSummary)

\* the response went to the file of -o and the summary followed on stderr
C17_Witness ==
    /\ RunDone
    /\ Len(effects) = 4
    /\ effects[3].op = "writeFile" /\ effects[3].ok
    /\ effects[4].op = "stderr"

\* run has got past writing its output
OutputWritten ==
    \/ runPc = "summary"
    \/ RunDone /\ (runErr.code = ExitSuccess \/ runErr.kind = "write")

\* C18: with -o FILE what run puts out is handed to writeFile for FILE,
\* once, and nothing goes to stdout; without -o it goes to stdout, once,
\* and writeFile is never called.  What run puts out is the response, as
\* FormatResponse left it, or the prompt with --show-prompt-only.
C18_ExclusiveDestinations ==
    /\ cliOpts.OutputFile # "" => EffectsOf("stdout") = {}
    /\ cliOpts.OutputFile = "" => EffectsOf("writeFile") = {}
    /\ Cardinality(OutputEffects) <= 1
    /\ OutputWritten =>
          WroteOnce(IF cliOpts.ShowPromptOnly THEN finalMarkdown ELSE output)
    /\ (OutputWritten /\ ~cliOpts.ShowPromptOnly) =>
          \E text \in ResponseTexts :
             output = IF cfg.ResponseSchema THEN FormatResponse(text)
                                            ELSE text

\* a JSON response, formatted, written to the file of -o, stdout untouched
C18_Witness ==
    /\ RunDone /\ runErr.code = ExitSuccess
    /\ cliOpts.OutputFile = "out"
    /\ cfg.ResponseSchema
    /\ EffectsOf("stdout") = {}
    /\ \E i \in EffectsOf("writeFile") :
          effects[i].arg = FormatResponse(JsonText) /\ effects[i].name = "out"

\* ------------------------------------- claims about BaseDir and the depth
\* a ProcessIncludes call is on top of the stack
Scanning == stack # <<>> /\ Top.fn = "ProcessIncludes"

\* the directory of the file whose text the call on top is scanning
ScannedDir == Dir(Abs(Top.file))

\* C19: while a text is scanned BaseDir is the directory of the file the
\* text came from, at the first directive as after every nested include
\* that has returned, and every relative reference met in the text is
\* resolved against that directory.
C19_BaseDirFollowsFile ==
    Scanning =>
       /\ Abs(BaseDir) = ScannedDir
       /\ (Top.pc # "scan" /\ ~IsAbs(Top.includePath))
             => Top.absPath = Join(ScannedDir, Top.includePath)

\* a includes d/c and then b; d/c includes ../b: the reference of d/c is
\* resolved in d, the second reference of a in the directory of a again
C19_Witness ==
    /\ Done /\ ret.err.kind = "nil"
    /\ templateFile = RelPath(<<"a">>)
    /\ reads = <<FileC, FileB, FileB>>

\* the ProcessIncludes calls that have not returned
Depth ==
    Cardinality({i \in 1..Len(stack) : stack[i].fn = "ProcessIncludes"})

\* C20 as claimed: the depth of the recursion never exceeds the number of
\* files of the inclusion graph, the template counted.
C20_DepthWithinFiles == Depth <= Cardinality(Reachable)

\* what the code keeps: the template, which is not in Visited, can be
\* entered once more through an include, and no file beyond that
DepthWithinFilesPlusOne == Depth <= Cardinality(Reachable) + 1

\* ------------------------------------------- claims about the arguments
IsVarFlag(a) == a = FlagVar \/ a = FlagV
HasEquals(a) == \E k \in 1..Len(a) : a[k] = "="
KeyOf(a) == SubSeq(a, 1, FirstEquals(a) - 1)
ValueOf(a) == SubSeq(a, FirstEquals(a) + 1, Len(a))

\* the arguments at the positions of P, in their order
Picked(P) ==
    [j \in 1..Cardinality(P) |->
        argv[CHOOSE p \in P : Cardinality({q \in P : q < p}) = j - 1]]

\* C21: ParseVarFlags returns an error exactly when some --var or -v is
\* the last argument or stands before an argument without "="; otherwise
\* every key has the value of its last --var, the value being all that
\* follows the first "=", and remaining is the other arguments in order.
C21_ParseVarFlags ==
    parseOut.set =>
       LET flagPos == {i \in 1..Len(argv) : IsVarFlag(argv[i])}
           valPos == {i + 1 : i \in flagPos}
           others == (1..Len(argv)) \ (flagPos \cup valPos)
       IN /\ parseOut.err <=>
                \E i \in flagPos : i = Len(argv) \/ ~HasEquals(argv[i + 1])
          /\ ~parseOut.err =>
                /\ parseOut.remaining = Picked(others)
                /\ DOMAIN parseOut.Variables = {KeyOf(argv[i]) : i \in valPos}
                /\ \A i \in valPos :
                      (\A j \in valPos : j > i => KeyOf(argv[j]) # KeyOf(argv[i]))
                         => parseOut.Variables[KeyOf(argv[i])]
                               = ValueOf(argv[i])

\* f -v a=1 --var a=b=1: a is set twice and ends as b=1, f remains
C21_Witness ==
    /\ parseOut.set /\ ~parseOut.err
    /\ argv = <<<<"f">>, FlagV, <<"a", "=", "1">>, FlagVar,
                <<"a", "=", "b", "=", "1">>>>
    /\ parseOut.remaining = <<<<"f">>>>
    /\ parseOut.Variables[<<"a">>] = <<"b", "=", "1">>

\* A flag is an argument that is not the value of the flag before it.
IsOutputFlag(a) == a = FlagO \/ a = FlagOutput
TakesValue(a) == IsVarFlag(a) \/ IsOutputFlag(a)
RECURSIVE IsValue(_)
IsValue(i) == i > 1 /\ TakesValue(argv[i - 1]) /\ ~IsValue(i - 1)

\* C22: ParseCLIFlags returns an error when an output flag is the last
\* argument and when a second output flag is given; a --var flag fails as
\* in ParseVarFlags, and nothing else does.  Without an error OutputFile
\* is the argument after the one output flag, or empty without one,
\* NoSummary tells whether --no-summary was given, and remaining is the
\* arguments that are neither flags nor their values, in order.
C22_ParseCLIFlags ==
    parseOut.set =>
       LET flags == {i \in 1..Len(argv) : ~IsValue(i)}
           outPos == {i \in flags : IsOutputFlag(argv[i])}
           varPos == {i \in flags : IsVarFlag(argv[i])}
           sumPos == {i \in flags : argv[i] = FlagNoSummary}
           others == flags \ (outPos \cup varPos \cup sumPos)
       IN /\ (\E i \in outPos : i = Len(argv)) => parseOut.err
          /\ Cardinality(outPos) >= 2 => parseOut.err
          /\ parseOut.err <=>
                \/ \E i \in outPos : i = Len(argv)
                \/ Cardinality(outPos) >= 2
                \/ \E i \in varPos :
                      i = Len(argv) \/ ~HasEquals(argv[i + 1])
          /\ ~parseOut.err =>
                /\ parseOut.OutputFile =
                      IF outPos = {} THEN <<>>
                      ELSE argv[(CHOOSE i \in outPos : TRUE) + 1]
                /\ parseOut.NoSummary <=> sumPos # {}
                /\ parseOut.remaining = Picked(others)
                /\ DOMAIN parseOut.Variables
                      = {KeyOf(argv[i + 1]) : i \in varPos}

\* -v a=1 -o g --no-summary f
C22_Witness ==
    /\ parseOut.set /\ ~parseOut.err
    /\ argv = <<FlagV, <<"a", "=", "1">>, FlagO, <<"g">>, FlagNoSummary>>
    /\ parseOut.OutputFile = <<"g">>
    /\ parseOut.NoSummary
    /\ parseOut.remaining = <<>>

\* the model names the earlier Validate accepted (validateModel)
SupportedModels ==
    {"gemini-2.0-flash-001", "gemini-1.5-pro-002", "gemini-1.5-pro-001",
     "gemini-1.5-flash-002", "gemini-1.5-flash-001"}
UnsupportedModel(config) ==
    config.Model # "" /\ config.Model \notin SupportedModels
UnknownSafety(config) ==
    \E cat \in DOMAIN config.SafetySettings :
        \/ cat \notin HarmCategories
        \/ config.SafetySettings[cat] \notin SafetyThresholds
ValidateFailed == runErr.set /\ runErr.kind = "validate"
ValidatePassed == runPc = "merge"

\* C23: Config.Validate returns an error for every configuration whose
\* model is non-empty and not a supported model name and for every
\* configuration with an unknown safety category or threshold, and nil for
\* every other configuration.
C23_ValidateRejects ==
    /\ ValidateFailed => (UnsupportedModel(cfg) \/ UnknownSafety(cfg))
    /\ ValidatePassed => ~(UnsupportedModel(cfg) \/ UnknownSafety(cfg))
\* what Validate does: only the safety settings decide
C23_SafetyOnly ==
    /\ ValidateFailed => UnknownSafety(cfg)
    /\ ValidatePassed => ~UnknownSafety(cfg)
C23_Reached == ValidatePassed /\ cfg.Model = "invalid"

\* the frames of the ProcessIncludes calls under way
PIFrames == {d \in 1..Len(stack) : stack[d].fn = "ProcessIncludes"}
\* the frames a step keeps (the top one is the only one it may change)
KeptFrames == {d \in 1..Len(stack) : d <= Len(stack')}
\* a scan step that has found a directive
ScanMatched == AtStep("scan") /\ Len(stack') = Len(stack)
\* a scan step that has found none: the call returns
ScanFinished == AtStep("scan") /\ Len(stack') < Len(stack)
\* an include has returned without error and the scan goes on
ScanResumed ==
    AtStep("call") /\ ret.set /\ ret.err.kind = "nil"
                   /\ Len(stack') = Len(stack)

\* C24: in a ProcessIncludes call the scan position never moves back and
\* goes past each directive it has matched; the call looks for directives
\* in the text of its own file only, so every directive of that text is
\* resolved once, the text an include brought in is appended as it is, and
\* a directive that the splice puts together is not expanded.
C24_ScanOnlyForward ==
    /\ [](\A d \in PIFrames :
             /\ stack[d].content = fs[Abs(stack[d].file)]
             /\ stack[d].lastIndex <= Len(stack[d].content)
             /\ stack[d].pc # "scan"
                   => /\ IsDirectiveAt(stack[d].content,
                                       stack[d].matchEnd - 2)
                      /\ stack[d].content[stack[d].matchEnd - 1].p
                            = stack[d].includePath
                      /\ stack[d].matchEnd - 3 >= stack[d].lastIndex)
    /\ [][\A d \in KeptFrames :
             /\ stack'[d].lastIndex >= stack[d].lastIndex
             /\ stack'[d].content = stack[d].content]_vars
    /\ [][ScanMatched
            => /\ Top'.matchEnd > Top.matchEnd
               /\ Top'.lastIndex = Top.lastIndex
               /\ ~HasDirective(SubSeq(Top.content, Top.lastIndex + 1,
                                        Top'.matchEnd - 3))]_vars
    /\ [][ScanResumed
            => /\ Top'.lastIndex = Top.matchEnd
               /\ Top'.result = Top.result \o ret.text]_vars
    /\ [][ScanFinished
            => /\ ~HasDirective(SubSeq(Top.content, Top.lastIndex + 1,
                                        Len(Top.content)))
               /\ ret'.text = Top.result
                      \o SubSeq(Top.content, Top.lastIndex + 1,
                                Len(Top.content))]_vars

\* the head of a directive before an include whose file holds the tail:
\* the result has a directive in it, and the file it names was not read
C24_Witness ==
    /\ Done /\ ret.err.kind = "nil"
    /\ HasDirective(ret.text)
    /\ Len(reads) = 1
    /\ ~HasDirective(SubSeq(fs[Abs(templateFile)], 5,
                            Len(fs[Abs(templateFile)])))

\* C25: whatever the files hold, a cycle, a reference to a file that does
\* not exist, a reference that leaves the root, the top-level
\* ProcessIncludes call comes to its end within the bound on its steps and
\* hands back a result or an error; until then it is never stuck.
C25_AlwaysTerminates ==
    /\ Terminates
    /\ Len(stack) <= 2 * (MaxItems + 1) + 1
    /\ Done => ret.set

\* a cycle a -> b -> a next to nothing else: the call ends with the error
C25_Witness ==
    /\ Done /\ Cyclic
    /\ ret.err.kind = "circular"
    /\ Len(reads) >= 2

\* a step with which a call hands an error to its caller
ReturnsError == ret'.set /\ ret'.err.kind # "nil" /\ Len(stack') < Len(stack)

\* C26: whenever ProcessIncludes or processIncludeFile returns an error,
\* at any depth, the text it returns is empty; an error once returned is
\* handed up unchanged by every caller, nothing more is read or scanned,
\* and the top-level call ends with that error and the empty text.
C26_NoPartialSuccess ==
    /\ []((ret.set /\ ret.err.kind # "nil") => ret.text = <<>>)
    /\ [][(ret.set /\ ret.err.kind # "nil")
            => /\ ret' = ret
               /\ reads' = reads
               /\ Len(stack') < Len(stack)]_vars
    /\ [][ReturnsError => ret'.text = <<>>]_vars

\* text was gathered before the failing directive, at two levels, and the
\* caller gets none of it
C26_Witness ==
    /\ Done /\ ret.err.kind = "read" /\ ret.text = <<>>
    /\ Len(reads) >= 2
    /\ fs[Abs(templateFile)][1] = LitX

\* the place of each stage of run in the order of the claim; the merge of
\* the variables comes between validation and the placeholders, and both
\* ways of putting out (the prompt or the response) are the output stage
StageOf(pc) ==
    CASE pc = "flags" -> 1
      [] pc = "read" -> 2
      [] pc = "includes" -> 3
      [] pc = "frontmatter" -> 4
      [] pc = "validate" -> 5
      [] pc = "merge" -> 6
      [] pc = "replace" -> 7
      [] pc = "callAI" -> 8
      [] pc \in {"show", "write"} -> 9
      [] pc = "summary" -> 10
      [] OTHER -> 11
StageOfEffect(op) ==
    CASE op = "readFile" -> 2
      [] op = "callAI" -> 8
      [] op \in {"writeFile", "stdout"} -> 9
      [] OTHER -> 10
RunFailed == runErr.set /\ runErr.kind # "nil"

\* C27: run goes through its stages in the order flags, template read,
\* includes, frontmatter, validation, placeholders, AI call, output,
\* summary, and never back; the includes are expanded and the placeholders
\* replaced in their own stage only; once a stage has failed nothing more
\* happens; and callAI is called at most once, after every earlier stage
\* has succeeded, with the prompt ReplacePlaceholders returned.
C27_StageOrder ==
    /\ [][runPc' # runPc => StageOf(runPc') > StageOf(runPc)]_vars
    /\ [][~runErr.set]_vars
    /\ [](RunFailed => runPc = "done")
    /\ [][<<stack, ret, reads, Visited, BaseDir>>'
              # <<stack, ret, reads, Visited, BaseDir>>
            => runPc \in {"read", "includes"}]_vars
    /\ [][substVars' # substVars => runPc \in {"merge", "replace"}]_vars
    /\ [](\A i, j \in 1..Len(effects) :
             /\ i < j
                  => StageOfEffect(effects[i].op) < StageOfEffect(effects[j].op)
             /\ ~effects[i].ok => (i = Len(effects) /\ RunFailed))
    /\ [](\A i \in EffectsOf("callAI") :
             /\ ~cliOpts.err /\ Len(cliOpts.args) >= 1
             /\ \E k \in EffectsOf("readFile") : k < i /\ effects[k].ok
             /\ stack = <<>> /\ ret.set /\ ret.err.kind = "nil"
             /\ contentWithIncludes = ret.text
             /\ ~ParseFrontmatter(contentWithIncludes).err
             /\ ~Validate(cfg)
             /\ out.set /\ ~out.err
             /\ effects[i].arg = out.text)

\* a run through all nine stages
C27_Witness ==
    /\ RunDone /\ runErr = ReturnNil
    /\ Len(reads) >= 1
    /\ replaced # <<>>
    /\ [i \in 1..Len(effects) |-> effects[i].op]
          \in {<<"readFile", "callAI", "stdout", "stderr">>,
               <<"readFile", "callAI", "writeFile", "stderr">>}

\* The files an expansion reads, in order, worked out from the files
\* alone: the directives of a text from left to right, each one followed
\* into its file, up to the first that fails.
RECURSIVE IncludeReads(_, _, _)
IncludeReads(text, dir, visited) ==
    LET idx == FindStringSubmatchIndex(text)
    IN IF idx = -1 THEN [reads |-> <<>>, ok |-> TRUE]
       ELSE LET target == ResolveAbsolutePath(text[idx + 2].p, dir)
                rest == SubSeq(text, idx + 4, Len(text))
            IN IF ~validatePathSecurity(target) \/ target \in visited
               THEN [reads |-> <<>>, ok |-> FALSE]
               ELSE IF ~FileExists(fs, target)
               THEN [reads |-> <<target>>, ok |-> FALSE]
               ELSE LET inner == IncludeReads(fs[target], Dir(target),
                                              visited \cup {target})
                        after == IncludeReads(rest, dir, visited)
                    IN IF ~inner.ok
                       THEN [reads |-> <<target>> \o inner.reads,
                             ok |-> FALSE]
                       ELSE [reads |-> <<target>> \o inner.reads
                                          \o after.reads,
                             ok |-> after.ok]
\* the include stage of the run is over
IncludesDone == ret.set /\ runPc \notin {"flags", "read", "includes"}
\* text holds part somewhere
RECURSIVE Holds(_, _)
Holds(text, part) ==
    /\ Len(text) >= Len(part)
    /\ \/ SubSeq(text, 1, Len(part)) = part
       \/ Holds(Tail(text), part)

\* C28: the files a run reads are the template and what the include
\* expansion of the template reads; they depend on the files only, not on
\* the values of the variables, nothing is read once the include stage is
\* over, and an include directive that a variable value brings into the
\* prompt is not resolved.
C28_ReadsIgnoreVariables ==
    /\ [](IncludesDone
            => reads = IncludeReads(fs[Abs(templateFile)],
                                    Dir(templateFile), {}).reads)
    /\ [][IncludesDone => reads' = reads]_vars
    /\ [](\A i \in EffectsOf("readFile") :
             i = 1 /\ effects[i].name = templateFile)

\* the placeholder of the template is replaced by a value that spells an
\* include of b; the prompt has the directive in it and b was not read
C28_Witness ==
    /\ RunDone /\ runErr = ReturnNil
    /\ FileExists(fs, FileB)
    /\ Holds(finalMarkdown, IncludeValue)
    /\ \A i \in 1..Len(reads) : reads[i] # FileB

\* C29: on a chain of nested includes no path is expanded twice, the path
\* of the top-level template included: an include that leads back to the
\* template is refused as circular where it stands, and the template is
\* never read through an include.
C29_ChainExpandsOnce ==
    /\ \A i, j \in PIFrames :
          i # j => Abs(stack[i].file) # Abs(stack[j].file)
    /\ \A i \in 1..Len(reads) : reads[i] # Abs(templateFile)
\* what holds instead: only the template can stand twice on a chain
C29_OnlyTemplateTwice ==
    \A i, j \in PIFrames :
        (i < j /\ Abs(stack[i].file) = Abs(stack[j].file))
            => (i = 1 /\ \A k \in PIFrames : k > j
                            => Abs(stack[k].file) # Abs(stack[1].file))

\* both checks have answered
BothChecked == checkOut.prefix # "" /\ checkOut.rel # ""

\* C30: the prefix test of the earlier processIncludes and the relative
\* path test of validatePathSecurity give the same answer for every
\* canonical absolute path, and a path either of them accepts lies under
\* the project root.
C30_ChecksAgree ==
    BothChecked
       => /\ checkOut.prefix = checkOut.rel
          /\ checkOut.prefix = "nil" => IsUnderRoot(checkArgs[1])
          /\ checkOut.rel = "nil" => IsUnderRoot(checkArgs[1])
\* what holds: validatePathSecurity accepts exactly the paths under the
\* root, and the prefix test accepts all of these and more
C30_RelIsStricter ==
    BothChecked
       => /\ checkOut.rel = "nil" <=> IsUnderRoot(checkArgs[1])
          /\ checkOut.rel = "nil" => checkOut.prefix = "nil"
C30_Sibling ==
    /\ BothChecked
    /\ checkArgs[1] = AbsPath(<<"pp", "a">>)
    /\ checkOut.prefix = "nil" /\ checkOut.rel = "outside"

====
